---- MODULE Spec2Model ----
(***************************************************************************)
(* Path resolution, sandbox enforcement and bounded directory listing of   *)
(* the filesystem MCP server (src/mcp-server/state.ts, the sanitizePath    *)
(* method of the Sanitization class, tools/listFiles/listFilesLogic.ts).   *)
(*                                                                         *)
(* A path is a sequence of one-character strings.  Node's `path` module is *)
(* modelled with its POSIX semantics (path.sep = "/", a backslash is an    *)
(* ordinary file-name character), the platform of the server's container.  *)
(***************************************************************************)
EXTENDS Integers, Sequences, FiniteSets, TLC

VARIABLES
    cwd,                    \* process.cwd(), fixed for the process lifetime
    configured,             \* the FS_BASE_DIRECTORY setting the configuration is loaded from (Null when not set)
    fsBaseDirectory,        \* ServerState.fsBaseDirectory (Null when disabled)
    defaultFilesystemPath,  \* ServerState.defaultFilesystemPath (Null when unset)
    call,                   \* the ServerState request being answered: operation, argument, outcome
    lastSet,                \* history: argument of the latest successful set since startup/clear
    san,                    \* a direct sanitizePath call: input, options, outcome, outcome of re-sanitizing
    listInput,              \* a list_files call: the directory tree at the resolved path, includeNested, maxEntries, the host's locale
    budget,                 \* its state object { count, limit, truncated }
    frames,                 \* its stack of readDirectoryRecursive activations
    listOutput,             \* its position and what listFilesLogic returned or threw
    readdirs,               \* history: the fs.readdir calls it has issued
    suspended,              \* a second list_files call on the same tree, waiting at an await while the first runs
    treeInput,              \* a buildTree call: the directory tree at rootPath and the exclude patterns
    treeOutput,             \* its position and the tree it returned
    disk,                   \* the file system the tool handlers act on: what exists at each location
    requests,               \* the tool requests in flight: tool, arguments, position, resolved paths, outcome
    fsCall,                 \* history: the mutating fs call the latest step issued, if any, with its targets
    rateConfig,             \* RateLimiter.config: maxRequests, windowMs
    limits,                 \* RateLimiter.limits: key -> { count, resetTime } (NoEntry when absent)
    clock,                  \* Date.now()
    checked                 \* the latest RateLimiter.check call: key, outcome, and the entry it found

pathVars == <<cwd, configured, fsBaseDirectory, defaultFilesystemPath, call, lastSet, san>>
listVars == <<listInput, budget, frames, listOutput, readdirs, suspended>>
treeVars == <<treeInput, treeOutput>>
toolVars == <<disk, requests, fsCall>>
rateVars == <<rateConfig, limits, clock, checked>>
vars == <<cwd, configured, fsBaseDirectory, defaultFilesystemPath, call, lastSet, san,
          listInput, budget, frames, listOutput, readdirs, suspended, treeInput, treeOutput,
          disk, requests, fsCall, rateConfig, limits, clock, checked>>

----------------------------------------------------------------------------
(* Characters and strings *)

Sep == "/"
Backslash == "\\"
NUL == "0"

\* JavaScript null / undefined: a value different from every string.
Null == <<"null">>

Dot == <<".">>
DotDot == <<".", ".">>

Range(s) == {s[i] : i \in 1..Len(s)}

\* String.prototype.startsWith
startsWith(s, prefix) ==
    /\ Len(prefix) <= Len(s)
    /\ SubSeq(s, 1, Len(prefix)) = prefix

\* String.prototype.includes("\0")
includesNul(s) == NUL \in Range(s)

\* normalized.replace(/\\/g, "/")
replaceBackslashes(s) == [i \in 1..Len(s) |-> IF s[i] = Backslash THEN Sep ELSE s[i]]

RECURSIVE stripFrom(_, _)
stripFrom(s, i) ==
    IF i <= Len(s) /\ s[i] \in {Sep, Backslash} THEN stripFrom(s, i + 1)
    ELSE SubSeq(s, i, Len(s))

\* normalized.replace(/^(?:[A-Za-z]:)?[/\\]+/, ""), applied to a path that
\* starts with "/": the leading run of slashes and backslashes is removed.
stripRoot(s) == stripFrom(s, 1)

----------------------------------------------------------------------------
(* Node's path module, POSIX flavour *)

RECURSIVE splitAcc(_, _, _, _)
splitAcc(s, i, cur, acc) ==
    IF i > Len(s) THEN Append(acc, cur)
    ELSE IF s[i] = Sep THEN splitAcc(s, i + 1, <<>>, Append(acc, cur))
    ELSE splitAcc(s, i + 1, Append(cur, s[i]), acc)

\* The segments of a string between separators (empty segments included).
split(s) == splitAcc(s, 1, <<>>, <<>>)

RECURSIVE joinSegs(_)
joinSegs(segs) ==
    IF segs = <<>> THEN <<>>
    ELSE IF Len(segs) = 1 THEN segs[1]
    ELSE segs[1] \o <<Sep>> \o joinSegs(Tail(segs))

RECURSIVE normSegs(_, _, _)
normSegs(segs, res, allowAboveRoot) ==
    IF segs = <<>> THEN res
    ELSE LET s == Head(segs)
             rest == Tail(segs)
         IN  IF s = <<>> \/ s = Dot THEN normSegs(rest, res, allowAboveRoot)
             ELSE IF s = DotDot
                  THEN IF res # <<>> /\ res[Len(res)] # DotDot
                       THEN normSegs(rest, SubSeq(res, 1, Len(res) - 1), allowAboveRoot)
                       ELSE IF allowAboveRoot
                            THEN normSegs(rest, Append(res, DotDot), allowAboveRoot)
                            ELSE normSegs(rest, res, allowAboveRoot)
                  ELSE normSegs(rest, Append(res, s), allowAboveRoot)

\* normalizeString: drops empty and "." segments, resolves ".." segments.
normalizeString(p, allowAboveRoot) == joinSegs(normSegs(split(p), <<>>, allowAboveRoot))

\* path.isAbsolute
isAbsolute(p) == Len(p) > 0 /\ p[1] = Sep

\* path.normalize
normalize(p) ==
    IF Len(p) = 0 THEN Dot
    ELSE LET abs == isAbsolute(p)
             trailing == p[Len(p)] = Sep
             body == normalizeString(p, ~abs)
         IN  IF Len(body) = 0
             THEN IF abs THEN <<Sep>> ELSE IF trailing THEN <<".", Sep>> ELSE Dot
             ELSE (IF abs THEN <<Sep>> ELSE <<>>) \o body \o (IF trailing THEN <<Sep>> ELSE <<>>)

\* path.join(a, b)
join(a, b) ==
    LET joined == IF Len(a) = 0 THEN b
                  ELSE IF Len(b) = 0 THEN a
                  ELSE a \o <<Sep>> \o b
    IN  IF Len(joined) = 0 THEN Dot ELSE normalize(joined)

RECURSIVE resolveAcc(_, _, _, _)
resolveAcc(dir, paths, i, acc) ==
    IF isAbsolute(acc) THEN acc
    ELSE IF i = 0 THEN dir \o <<Sep>> \o acc
    ELSE IF Len(paths[i]) = 0 THEN resolveAcc(dir, paths, i - 1, acc)
    ELSE resolveAcc(dir, paths, i - 1, paths[i] \o <<Sep>> \o acc)

\* path.resolve(...paths) in a process whose working directory is dir: the
\* arguments are prepended right to left until the result is absolute.
resolve(dir, paths) ==
    LET body == normalizeString(resolveAcc(dir, paths, Len(paths), <<>>), FALSE)
    IN  <<Sep>> \o body

RECURSIVE commonLen(_, _)
commonLen(a, b) ==
    IF a # <<>> /\ b # <<>> /\ Head(a) = Head(b) THEN 1 + commonLen(Tail(a), Tail(b)) ELSE 0

\* path.relative(from, to) for two resolved absolute paths.
relative(from, to) ==
    LET f == normSegs(split(from), <<>>, FALSE)
        t == normSegs(split(to), <<>>, FALSE)
        n == commonLen(f, t)
    IN  joinSegs([i \in 1..(Len(f) - n) |-> DotDot] \o SubSeq(t, n + 1, Len(t)))

----------------------------------------------------------------------------
(* Sanitization.sanitizePath *)

\* Outcomes: a returned value (ok) or a thrown McpError with its code.
OkR(p) == [ok |-> TRUE, path |-> p, code |-> "OK"]
ErrR(c) == [ok |-> FALSE, path |-> Null, code |-> c]
Pending == [ok |-> FALSE, path |-> Null, code |-> "PENDING"]

\* A JavaScript string used as a condition: null, undefined and "" are falsy.
truthy(s) == s # Null /\ s # <<>>

\* The options ServerState passes on every call.
StateOptions == [toPosix |-> TRUE, allowAbsolute |-> TRUE, rootDir |-> Null]

\* const effectiveOptions = { ..., rootDir: options.rootDir ? path.resolve(options.rootDir) : undefined }
effectiveRootDir(options, dir) ==
    IF truthy(options.rootDir) THEN resolve(dir, <<options.rootDir>>) ELSE Null

\* sanitizeUnderRoot with the boundary tested as a bare string prefix (no separator).
sanitizeUnderRootPrefixOnly(normalized, rootDir, options, dir) ==
    LET fullPath == resolve(dir, <<rootDir, normalized>>)
    IN  IF ~startsWith(fullPath, rootDir)
        THEN ErrR("VALIDATION_ERROR")
        ELSE LET rel == relative(rootDir, fullPath)
                 final == IF rel = <<>> THEN Dot ELSE rel
             IN  IF isAbsolute(final) /\ ~options.allowAbsolute
                 THEN ErrR("VALIDATION_ERROR")
                 ELSE OkR(final)

\* The branch taken when rootDir is set: confine under rootDir, return the relative path.
sanitizeUnderRoot(normalized, rootDir, options, dir) ==
    LET fullPath == resolve(dir, <<rootDir, normalized>>)
    IN  IF ~startsWith(fullPath, rootDir \o <<Sep>>) /\ fullPath # rootDir
        THEN ErrR("VALIDATION_ERROR")
        ELSE LET rel == relative(rootDir, fullPath)
                 final == IF rel = <<>> THEN Dot ELSE rel
             IN  IF isAbsolute(final) /\ ~options.allowAbsolute
                 THEN ErrR("VALIDATION_ERROR")
                 ELSE OkR(final)

\* The branch taken when no rootDir is set.
sanitizeNoRoot(normalized, options, dir) ==
    IF isAbsolute(normalized)
    THEN IF ~options.allowAbsolute THEN OkR(stripRoot(normalized)) ELSE OkR(normalized)
    ELSE LET resolvedAgainstCwd == resolve(dir, <<normalized>>)
             currentWorkingDir == resolve(dir, <<Dot>>)
         IN  IF /\ ~startsWith(resolvedAgainstCwd, currentWorkingDir \o <<Sep>>)
                /\ resolvedAgainstCwd # currentWorkingDir
             THEN ErrR("VALIDATION_ERROR")
             ELSE OkR(normalized)

\* path.normalize(input), then the optional backslash conversion.
normalizedInput(input, options) ==
    IF options.toPosix THEN replaceBackslashes(normalize(input)) ELSE normalize(input)

\* sanitizePath without the null-byte test.
sanitizePathNoNulCheck(input, options, dir) ==
    IF ~truthy(input) THEN ErrR("VALIDATION_ERROR")
    ELSE LET normalized == normalizedInput(input, options)
             rootDir == effectiveRootDir(options, dir)
         IN  IF rootDir # Null
             THEN sanitizeUnderRoot(normalized, rootDir, options, dir)
             ELSE sanitizeNoRoot(normalized, options, dir)

\* sanitizePath(input, options) in a process whose working directory is dir.
\* Every error thrown inside is rethrown as McpError(VALIDATION_ERROR).
sanitizePath(input, options, dir) ==
    IF ~truthy(input) THEN ErrR("VALIDATION_ERROR")
    ELSE IF includesNul(input) THEN ErrR("VALIDATION_ERROR")
    ELSE LET normalized == normalizedInput(input, options)
             rootDir == effectiveRootDir(options, dir)
         IN  IF rootDir # Null
             THEN sanitizeUnderRoot(normalized, rootDir, options, dir)
             ELSE sanitizeNoRoot(normalized, options, dir)

----------------------------------------------------------------------------
(* ServerState *)

\* The constructor sanitizing without allowAbsolute: the root of the path is stripped.
ServerStateInitStripsRoot(configuredBase, dir) ==
    IF ~truthy(configuredBase) THEN Null
    ELSE LET sanitizedBase == sanitizePath(configuredBase, [StateOptions EXCEPT !.allowAbsolute = FALSE], dir)
         IN  IF sanitizedBase.ok THEN sanitizedBase.path ELSE Null

\* The constructor keeping the configured value when it fails sanitization.
ServerStateInitKeepsInvalid(configuredBase, dir) ==
    IF ~truthy(configuredBase) THEN Null
    ELSE LET sanitizedBase == sanitizePath(configuredBase, StateOptions, dir)
         IN  IF sanitizedBase.ok THEN sanitizedBase.path ELSE configuredBase

\* The constructor: config.fsBaseDirectory || null, then sanitized; an invalid
\* value disables the boundary.
ServerStateInit(configuredBase, dir) ==
    IF ~truthy(configuredBase) THEN Null
    ELSE LET sanitizedBase == sanitizePath(configuredBase, StateOptions, dir)
         IN  IF sanitizedBase.ok THEN sanitizedBase.path ELSE Null

\* setDefaultFilesystemPath that assigns the field before validating the argument.
setDefaultFilesystemPathAssignsFirst(current, newPath, dir) ==
    IF ~isAbsolute(newPath)
    THEN [result |-> ErrR("VALIDATION_ERROR"), default |-> newPath]
    ELSE LET sanitizedPathInfo == sanitizePath(newPath, StateOptions, dir)
         IN  IF sanitizedPathInfo.ok
             THEN [result |-> OkR(Null), default |-> sanitizedPathInfo.path]
             ELSE [result |-> ErrR(sanitizedPathInfo.code), default |-> newPath]

\* setDefaultFilesystemPath that keeps an earlier default instead of replacing it.
setDefaultFilesystemPathKeepsFirst(current, newPath, dir) ==
    IF ~isAbsolute(newPath)
    THEN [result |-> ErrR("VALIDATION_ERROR"), default |-> current]
    ELSE LET sanitizedPathInfo == sanitizePath(newPath, StateOptions, dir)
         IN  IF sanitizedPathInfo.ok
             THEN [result |-> OkR(Null),
                   default |-> IF truthy(current) THEN current ELSE sanitizedPathInfo.path]
             ELSE [result |-> ErrR(sanitizedPathInfo.code), default |-> current]

\* setDefaultFilesystemPath: the outcome and the default path it leaves.
setDefaultFilesystemPath(current, newPath, dir) ==
    IF ~isAbsolute(newPath)
    THEN [result |-> ErrR("VALIDATION_ERROR"), default |-> current]
    ELSE LET sanitizedPathInfo == sanitizePath(newPath, StateOptions, dir)
         IN  IF sanitizedPathInfo.ok
             THEN [result |-> OkR(Null), default |-> sanitizedPathInfo.path]
             ELSE [result |-> ErrR(sanitizedPathInfo.code), default |-> current]

\* withinBase with the boundary tested as a bare string prefix (no separator).
withinBasePrefixOnly(sanitizedAbsolutePath, base) ==
    startsWith(normalize(sanitizedAbsolutePath), normalize(base))

\* The boundary test of resolvePath: is the sanitized path the base or under it?
withinBase(sanitizedAbsolutePath, base) ==
    LET normalizedFsBaseDirectory == normalize(base)
        normalizedSanitizedAbsolutePath == normalize(sanitizedAbsolutePath)
    IN  \/ startsWith(normalizedSanitizedAbsolutePath, normalizedFsBaseDirectory \o <<Sep>>)
        \/ normalizedSanitizedAbsolutePath = normalizedFsBaseDirectory

\* The candidate resolvePath sanitizes: the absolute input, or the relative
\* input joined onto the default path.
absolutePathOf(default, requestedPath) ==
    IF isAbsolute(requestedPath) THEN requestedPath ELSE join(default, requestedPath)

\* resolvePath that falls back to the working directory when no default is set.
resolvePathAgainstCwd(default, base, requestedPath, dir) ==
    LET anchor == IF truthy(default) THEN default ELSE dir
        sanitizedPathInfo == sanitizePath(absolutePathOf(anchor, requestedPath), StateOptions, dir)
    IN  IF ~sanitizedPathInfo.ok THEN ErrR(sanitizedPathInfo.code)
        ELSE IF truthy(base) /\ ~withinBase(sanitizedPathInfo.path, base)
             THEN ErrR("FORBIDDEN")
             ELSE OkR(sanitizedPathInfo.path)

\* resolvePath(requestedPath)
resolvePath(default, base, requestedPath, dir) ==
    IF ~isAbsolute(requestedPath) /\ ~truthy(default)
    THEN ErrR("VALIDATION_ERROR")
    ELSE LET sanitizedPathInfo == sanitizePath(absolutePathOf(default, requestedPath), StateOptions, dir)
         IN  IF ~sanitizedPathInfo.ok THEN ErrR(sanitizedPathInfo.code)
             ELSE IF truthy(base) /\ ~withinBase(sanitizedPathInfo.path, base)
                  THEN ErrR("FORBIDDEN")
                  ELSE OkR(sanitizedPathInfo.path)

----------------------------------------------------------------------------
(* Inputs *)

\* The pieces request strings are built from: separators, dot segments, a
\* name character and the null byte.
Tokens == {<<Sep>>, <<Backslash>>, Dot, DotDot, <<"a">>, <<NUL>>}

\* The longest request path, in tokens.
MaxTokens == 4

RECURSIVE TokenStrings(_)
TokenStrings(n) ==
    IF n = 0 THEN {<<>>}
    ELSE LET shorter == TokenStrings(n - 1)
         IN  shorter \cup {s \o t : s \in shorter, t \in Tokens}

\* The requestedPath arguments of resolvePath.
RequestPaths == TokenStrings(MaxTokens)

\* The arguments of setDefaultFilesystemPath / set_filesystem_default.
DefaultPaths ==
    { <<Sep>>, <<Sep, "a">>, <<Sep, "a", Sep>>, <<Sep, "a", Sep, "a">>, <<Sep, "a", "a">>,
      <<Sep, "a", Backslash, ".", ".">>, <<Sep, NUL>>, <<"a">>, <<>> }

\* process.cwd(), and the values of the FS_BASE_DIRECTORY setting (Null: not
\* set): absolute ones, one with a null byte, and relative ones.
WorkingDirs == { <<Sep, "a">> }
ConfiguredBases == { Null, <<Sep, "a">>, <<Sep>>, <<Sep, NUL>>, DotDot, <<"a">> }

\* The project root that a relative FS_BASE_DIRECTORY is resolved against.
ProjectRoot == <<Sep, "a">>

\* config.fsBaseDirectory as the configuration module loads it: an absolute
\* setting as given, a relative one resolved against the project root.
configFsBaseDirectory(setting) ==
    IF ~truthy(setting) THEN Null
    ELSE IF isAbsolute(setting) THEN setting
    ELSE resolve(ProjectRoot, <<setting>>)

----------------------------------------------------------------------------
(* The session state machine: one ServerState request at a time *)

Idle == [op |-> "idle", arg |-> Null, result |-> Pending]
SanIdle == [input |-> Null, options |-> StateOptions, out |-> Pending, again |-> Pending]

\* No second list_files call.
NoCall == [pc |-> "none"]

\* No list_files call is being made.
NoListing ==
    /\ listInput = [root |-> [readError |-> "none", entries |-> <<>>], includeNested |-> FALSE, maxEntries |-> 0,
                    locale |-> "en-US"]
    /\ budget = [count |-> 0, limit |-> 0, truncated |-> FALSE]
    /\ frames = <<>>
    /\ listOutput = [pc |-> "none", code |-> "OK", items |-> <<>>, itemCount |-> 0, truncated |-> FALSE]
    /\ readdirs = 0
    /\ suspended = NoCall

\* No buildTree call is made.
NoTree ==
    /\ treeInput = [root |-> <<>>, excludePatterns |-> <<>>]
    /\ treeOutput = [pc |-> "none", tree |-> <<>>]

\* A request slot with no request in it, and no fs call issued yet.
NoRequest ==
    [tool |-> "none", path |-> Null, dest |-> Null, flag |-> FALSE, pc |-> "idle",
     abs |-> Null, absDest |-> Null, seen |-> Null, code |-> "none"]
NoFsCall == [op |-> "none", target |-> Null, other |-> Null, by |-> 0, destExisted |-> FALSE]

\* No tool request is in flight and nothing is on the disk.
NoTools ==
    /\ disk = <<>>
    /\ requests = <<>>
    /\ fsCall = NoFsCall

\* No RateLimiter is in use.
NoRate ==
    /\ rateConfig = [maxRequests |-> 0, windowMs |-> 0]
    /\ limits = <<>>
    /\ clock = 0
    /\ checked = [key |-> "", outcome |-> "none"]

Init ==
    /\ cwd \in WorkingDirs
    /\ configured \in ConfiguredBases
    /\ fsBaseDirectory = ServerStateInit(configFsBaseDirectory(configured), cwd)
    /\ defaultFilesystemPath = Null
    /\ call = Idle
    /\ lastSet = Null
    /\ san = SanIdle
    /\ NoListing
    /\ NoTree
    /\ NoTools
    /\ NoRate

\* serverState.setDefaultFilesystemPath(newPath, context)
SetDefaultPath(newPath) ==
    LET r == setDefaultFilesystemPath(defaultFilesystemPath, newPath, cwd)
    IN  /\ call = Idle /\ san = SanIdle
        /\ defaultFilesystemPath' = r.default
        /\ call' = [op |-> "setDefaultFilesystemPath", arg |-> newPath, result |-> r.result]
        /\ lastSet' = IF r.result.ok THEN newPath ELSE lastSet
        /\ UNCHANGED <<cwd, configured, fsBaseDirectory, san>> /\ UNCHANGED listVars /\ UNCHANGED treeVars /\ UNCHANGED toolVars /\ UNCHANGED rateVars

\* The set_filesystem_default tool: sets the default, then reports getDefaultFilesystemPath().
SetFilesystemDefaultTool(newPath) ==
    LET r == setDefaultFilesystemPath(defaultFilesystemPath, newPath, cwd)
    IN  /\ call = Idle /\ san = SanIdle
        /\ defaultFilesystemPath' = r.default
        /\ call' = [op |-> "set_filesystem_default", arg |-> newPath,
                    result |-> IF r.result.ok THEN OkR(r.default) ELSE r.result]
        /\ lastSet' = IF r.result.ok THEN newPath ELSE lastSet
        /\ UNCHANGED <<cwd, configured, fsBaseDirectory, san>> /\ UNCHANGED listVars /\ UNCHANGED treeVars /\ UNCHANGED toolVars /\ UNCHANGED rateVars

\* serverState.getDefaultFilesystemPath()
GetDefaultPath ==
    /\ call = Idle /\ san = SanIdle
    /\ call' = [op |-> "getDefaultFilesystemPath", arg |-> Null, result |-> OkR(defaultFilesystemPath)]
    /\ UNCHANGED <<cwd, configured, fsBaseDirectory, defaultFilesystemPath, lastSet, san>> /\ UNCHANGED listVars /\ UNCHANGED treeVars /\ UNCHANGED toolVars /\ UNCHANGED rateVars

\* clearDefaultFilesystemPath that resets the base directory as well.
ClearDefaultPathAndBase ==
    /\ call = Idle /\ san = SanIdle
    /\ defaultFilesystemPath' = Null
    /\ fsBaseDirectory' = Null
    /\ call' = [op |-> "clearDefaultFilesystemPath", arg |-> Null, result |-> OkR(Null)]
    /\ lastSet' = Null
    /\ UNCHANGED <<cwd, configured, san>> /\ UNCHANGED listVars /\ UNCHANGED treeVars /\ UNCHANGED toolVars /\ UNCHANGED rateVars

\* serverState.clearDefaultFilesystemPath(context)
ClearDefaultPath ==
    /\ call = Idle /\ san = SanIdle
    /\ defaultFilesystemPath' = Null
    /\ call' = [op |-> "clearDefaultFilesystemPath", arg |-> Null, result |-> OkR(Null)]
    /\ lastSet' = Null
    /\ UNCHANGED <<cwd, configured, fsBaseDirectory, san>> /\ UNCHANGED listVars /\ UNCHANGED treeVars /\ UNCHANGED toolVars /\ UNCHANGED rateVars

\* serverState.resolvePath(requestedPath, context)
ResolvePath(requestedPath) ==
    /\ call = Idle /\ san = SanIdle
    /\ call' = [op |-> "resolvePath", arg |-> requestedPath,
                result |-> resolvePath(defaultFilesystemPath, fsBaseDirectory, requestedPath, cwd)]
    /\ UNCHANGED <<cwd, configured, fsBaseDirectory, defaultFilesystemPath, lastSet, san>> /\ UNCHANGED listVars /\ UNCHANGED treeVars /\ UNCHANGED toolVars /\ UNCHANGED rateVars

\* The outcome is handed to the caller; the server is ready for the next request.
Return ==
    /\ call # Idle
    /\ call' = Idle
    /\ UNCHANGED <<cwd, configured, fsBaseDirectory, defaultFilesystemPath, lastSet, san>> /\ UNCHANGED listVars /\ UNCHANGED treeVars /\ UNCHANGED toolVars /\ UNCHANGED rateVars

Next ==
    \/ \E p \in DefaultPaths : SetDefaultPath(p)
    \/ \E p \in DefaultPaths : SetFilesystemDefaultTool(p)
    \/ GetDefaultPath
    \/ ClearDefaultPath
    \/ \E p \in RequestPaths : ResolvePath(p)
    \/ Return

Spec == Init /\ [][Next]_vars

----------------------------------------------------------------------------
(* sanitizePath as a pure function: one call, then a call on its own result *)

\* The longest direct sanitizePath input, in tokens.
MaxSanTokens == 3

SanInputs == TokenStrings(MaxSanTokens)
SanRootDirs == { Null, <<Sep, "a">>, <<Sep>>, <<"a">> }
SanOptions == [toPosix : BOOLEAN, allowAbsolute : BOOLEAN, rootDir : SanRootDirs]
SanWorkingDirs == { <<Sep, "a">>, <<Sep>> }

InitSan ==
    /\ cwd \in SanWorkingDirs
    /\ configured = Null
    /\ fsBaseDirectory = Null
    /\ defaultFilesystemPath = Null
    /\ call = Idle
    /\ lastSet = Null
    /\ san \in [input : SanInputs, options : SanOptions, out : {Pending}, again : {Pending}]
    /\ NoListing
    /\ NoTree
    /\ NoTools
    /\ NoRate

\* sanitization.sanitizePath(input, options)
Sanitize ==
    /\ san.input # Null /\ san.out = Pending
    /\ san' = [san EXCEPT !.out = sanitizePath(san.input, san.options, cwd)]
    /\ UNCHANGED <<cwd, configured, fsBaseDirectory, defaultFilesystemPath, call, lastSet>> /\ UNCHANGED listVars /\ UNCHANGED treeVars /\ UNCHANGED toolVars /\ UNCHANGED rateVars

\* sanitization.sanitizePath(info.sanitizedPath, options) on the result of a successful call
SanitizeAgain ==
    /\ san.input # Null /\ san.out.ok /\ san.again = Pending
    /\ san' = [san EXCEPT !.again = sanitizePath(san.out.path, san.options, cwd)]
    /\ UNCHANGED <<cwd, configured, fsBaseDirectory, defaultFilesystemPath, call, lastSet>> /\ UNCHANGED listVars /\ UNCHANGED treeVars /\ UNCHANGED toolVars /\ UNCHANGED rateVars

NextSan == Sanitize \/ SanitizeAgain

SpecSan == InitSan /\ [][NextSan]_vars

\* The session state machine and the direct sanitizePath calls together.
InitPaths == Init \/ InitSan
NextPaths == Next \/ NextSan
SpecPaths == InitPaths /\ [][NextPaths]_vars

----------------------------------------------------------------------------
(* Properties of path resolution and sanitization *)

\* The segments of a path's location (empty, "." and ".." segments resolved).
locationSegs(p) == normSegs(split(p), <<>>, ~isAbsolute(p))

\* Location p is directory b itself or lies under it, segment by segment.
UnderDir(p, b) ==
    /\ isAbsolute(p) = isAbsolute(b)
    /\ Len(locationSegs(b)) <= Len(locationSegs(p))
    /\ SubSeq(locationSegs(p), 1, Len(locationSegs(b))) = locationSegs(b)

\* Textually: s is b, or b followed by the separator and more.
TextuallyWithin(s, b) == s = b \/ startsWith(s, b \o <<Sep>>)

\* The location a resolvePath request names: its candidate path, normalized
\* with backslashes read as separators (the toPosix option ServerState uses).
RequestLocation == normalize(normalizedInput(absolutePathOf(defaultFilesystemPath, call.arg), StateOptions))

HasCandidate == isAbsolute(call.arg) \/ truthy(defaultFilesystemPath)

\* The candidate path of the request (defined when HasCandidate): path.join
\* has already resolved the "." and ".." segments of a relative request.
Candidate == absolutePathOf(defaultFilesystemPath, call.arg)

SetOps == {"setDefaultFilesystemPath", "set_filesystem_default"}

\* C1: with a sandbox base B active, every string resolvePath returns is B
\* itself or starts with B followed by the path separator.
C1_ReturnedPathTextuallyWithinBase ==
    (call.op = "resolvePath" /\ call.result.ok /\ truthy(fsBaseDirectory))
        => TextuallyWithin(call.result.path, fsBaseDirectory)

\* C2 as stated: with a sandbox base active, every request whose candidate
\* path names a location that is neither the base nor under it fails with
\* FORBIDDEN and returns no path.
C2_OutsideAlwaysForbidden ==
    (/\ call.op = "resolvePath" /\ truthy(fsBaseDirectory) /\ HasCandidate
     /\ ~UnderDir(RequestLocation, fsBaseDirectory))
        => call.result = ErrR("FORBIDDEN")

\* C2 amended: with a sandbox base active, every request whose candidate
\* path is free of null bytes and names a location that is neither the base
\* nor under it fails with FORBIDDEN and returns no path (a candidate with a
\* null byte fails with VALIDATION_ERROR before the boundary is tested).
C2_OutsideForbidden ==
    (/\ call.op = "resolvePath" /\ truthy(fsBaseDirectory) /\ HasCandidate
     /\ ~UnderDir(RequestLocation, fsBaseDirectory))
        => IF includesNul(Candidate)
           THEN call.result = ErrR("VALIDATION_ERROR")
           ELSE call.result = ErrR("FORBIDDEN")

\* C2 witness: default /a/a under base /a, a relative request climbing out of the base.
C2_Witness ==
    /\ call.op = "resolvePath" /\ call.result = ErrR("FORBIDDEN")
    /\ fsBaseDirectory = <<Sep, "a">> /\ defaultFilesystemPath = <<Sep, "a", Sep, "a">>
    /\ call.arg = DotDot \o <<Sep>> \o DotDot

\* The resolved root directory of the direct sanitizePath call.
SanRoot == resolve(cwd, <<san.options.rootDir>>)

\* C3: sanitizePath with rootDir set either fails with VALIDATION_ERROR or
\* returns a relative path without ".." segments that resolves to rootDir or
\* under it; every input whose normalized form (path.normalize, then the
\* backslash conversion if toPosix is set) resolves outside rootDir fails
\* with VALIDATION_ERROR.
C3_ConfinedUnderRootDir ==
    (san.out # Pending /\ truthy(san.options.rootDir)) =>
        /\ \/ san.out = ErrR("VALIDATION_ERROR")
           \/ /\ san.out.ok
              /\ ~isAbsolute(san.out.path)
              /\ \A i \in 1..Len(split(san.out.path)) : split(san.out.path)[i] # DotDot
              /\ UnderDir(resolve(cwd, <<SanRoot, san.out.path>>), SanRoot)
        /\ (/\ truthy(san.input) /\ ~includesNul(san.input)
            /\ ~UnderDir(resolve(cwd, <<SanRoot, normalizedInput(san.input, san.options)>>), SanRoot))
               => san.out = ErrR("VALIDATION_ERROR")

\* C3 witness: a relative input with a ".." segment that climbs out of rootDir is refused.
C3_Witness ==
    /\ san.out = ErrR("VALIDATION_ERROR") /\ truthy(san.options.rootDir)
    /\ san.input = DotDot \o <<Sep, "a">>

\* No path sanitizePath or resolvePath returned, and no stored default,
\* contains a null byte; sanitizePath and setDefaultPath refuse such input.
NoNullByteGetsThrough ==
    /\ (san.out # Pending /\ includesNul(san.input)) => san.out = ErrR("VALIDATION_ERROR")
    /\ san.out.ok => ~includesNul(san.out.path)
    /\ san.again.ok => ~includesNul(san.again.path)
    /\ truthy(defaultFilesystemPath) => ~includesNul(defaultFilesystemPath)
    /\ (call.op \in SetOps /\ includesNul(call.arg)) => call.result = ErrR("VALIDATION_ERROR")
    /\ (call.op = "resolvePath" /\ call.result.ok) => ~includesNul(call.result.path)

\* C4 as stated: an input with a null byte always fails sanitizePath with
\* VALIDATION_ERROR, whatever the options; no returned or stored path contains
\* a null byte; resolvePath reports VALIDATION_ERROR for every such input.
C4_NullByteInputAlwaysRejected ==
    /\ NoNullByteGetsThrough
    /\ (call.op = "resolvePath" /\ includesNul(call.arg)) => call.result = ErrR("VALIDATION_ERROR")

\* C4 amended: as stated, except that resolvePath reports VALIDATION_ERROR
\* for an input with a null byte when no candidate exists or the null byte is
\* still in the candidate path (path.join drops a segment cancelled by "..").
C4_NullByteRejected ==
    /\ NoNullByteGetsThrough
    /\ (call.op = "resolvePath" /\ includesNul(call.arg) /\ (HasCandidate => includesNul(Candidate)))
          => call.result = ErrR("VALIDATION_ERROR")

\* C4 witness: a null byte in an input that would otherwise lie inside rootDir.
C4_Witness ==
    /\ san.out = ErrR("VALIDATION_ERROR") /\ san.input = <<"a", NUL>>
    /\ truthy(san.options.rootDir) /\ san.options.toPosix /\ san.options.allowAbsolute

\* C5: sanitizing the result of a successful sanitizePath call with the same
\* options succeeds and returns the same path.
C5_Idempotent ==
    san.again # Pending => (san.again.ok /\ san.again.path = san.out.path)

\* C6: a relative requestedPath while no default path is set fails with
\* VALIDATION_ERROR, with or without a sandbox base.
C6_RelativeWithoutDefaultFails ==
    (call.op = "resolvePath" /\ ~isAbsolute(call.arg) /\ defaultFilesystemPath = Null)
        => call.result = ErrR("VALIDATION_ERROR")

\* C6 witness: a relative request after the default path was never set or was cleared.
C6_Witness ==
    /\ call.op = "resolvePath" /\ call.arg = <<"a">> /\ defaultFilesystemPath = Null
    /\ truthy(fsBaseDirectory) /\ call.result = ErrR("VALIDATION_ERROR")

\* C7: setDefaultPath(p) with p not absolute, or p failing sanitization, fails
\* with VALIDATION_ERROR and leaves the stored default path as it was.
C7_FailedSetKeepsDefault ==
    [][(/\ call.op = "idle" /\ call'.op \in SetOps
        /\ \/ ~isAbsolute(call'.arg)
           \/ includesNul(call'.arg)
           \/ ~sanitizePath(call'.arg, StateOptions, cwd).ok)
          => /\ call'.result = ErrR("VALIDATION_ERROR")
             /\ defaultFilesystemPath' = defaultFilesystemPath]_vars

\* C7 witness: an absolute argument with a null byte is refused while a default is stored.
C7_Witness ==
    /\ call.op \in SetOps /\ isAbsolute(call.arg) /\ includesNul(call.arg)
    /\ call.result = ErrR("VALIDATION_ERROR") /\ truthy(defaultFilesystemPath)

\* The value getDefaultPath must report: null, or the sanitized form of the
\* argument of the latest successful setDefaultPath.
ExpectedDefault ==
    IF lastSet = Null THEN Null ELSE normalizedInput(lastSet, StateOptions)

\* C8: the default path is null if no set succeeded since startup or the last
\* clear, otherwise the sanitized argument of the latest successful set;
\* getDefaultPath and the set_filesystem_default tool report that value.
C8_DefaultIsLatestSet ==
    /\ defaultFilesystemPath = ExpectedDefault
    /\ call.op = "getDefaultFilesystemPath" => call.result = OkR(ExpectedDefault)
    /\ (call.op = "set_filesystem_default" /\ call.result.ok) => call.result.path = ExpectedDefault

\* C8 witness: the tool reports a default whose sanitized form differs from its argument.
C8_Witness ==
    /\ call.op = "set_filesystem_default" /\ call.result.ok
    /\ call.result.path # call.arg /\ call.result.path = defaultFilesystemPath

----------------------------------------------------------------------------
(* list_files: listFilesLogic and readDirectoryRecursive *)

\* Entry names: the root directory draws from Names, a subdirectory from SubNames.
Names == {"a", "b", "B"}
SubNames == {"a", "B"}

\* error.code of a failed fs.readdir
ReadErrors == {"ENOENT", "ENOTDIR", "EACCES"}

\* The largest maxEntries of a call.
MaxLimit == 3

File(n) == [name |-> n, isDirectory |-> FALSE, readError |-> "none", entries |-> <<>>]
Dir(n, err, es) == [name |-> n, isDirectory |-> TRUE, readError |-> err, entries |-> es]

\* The orders in which fs.readdir may return entries named from S.
RECURSIVE Orderings(_)
Orderings(S) ==
    {<<>>} \cup UNION {{<<x>> \o o : o \in Orderings(S \ {x})} : x \in S}

\* What a subdirectory may hold: files only.
SubListings == {[i \in 1..Len(o) |-> File(o[i])] : o \in Orderings(SubNames)}

\* What the entry named n of the root directory may be: a file, a readable
\* directory, or a directory whose readdir fails.
EntryKinds(n) ==
    {File(n)} \cup {Dir(n, "none", es) : es \in SubListings} \cup {Dir(n, e, <<>>) : e \in ReadErrors}

RECURSIVE ListingsOf(_)
ListingsOf(o) ==
    IF o = <<>> THEN {<<>>}
    ELSE {<<e>> \o rest : e \in EntryKinds(Head(o)), rest \in ListingsOf(Tail(o))}

\* The directory at the resolved path: readable with some entries, or failing.
RootDirs ==
    {[readError |-> "none", entries |-> es] : es \in UNION {ListingsOf(o) : o \in Orderings(Names)}}
        \cup {[readError |-> e, entries |-> <<>>] : e \in ReadErrors}

\* The default locale of the host: its collation puts the lowercase letter
\* first among names that differ in case only (most locales), or the
\* uppercase one (Danish).
Locales == {"en-US", "da-DK"}

\* a.name.localeCompare(b.name) under the collation of the default locale, for the model's names.
collationRank(n) ==
    CASE n = "a" -> 1
      [] n = "b" -> IF listInput.locale = "da-DK" THEN 3 ELSE 2
      [] n = "B" -> IF listInput.locale = "da-DK" THEN 2 ELSE 3
      [] OTHER -> 4
localeCompare(a, b) == collationRank(a) - collationRank(b)

\* The sort comparator is negative: directories first, then by name.
sortsBefore(a, b) ==
    IF a.isDirectory # b.isDirectory THEN a.isDirectory
    ELSE localeCompare(a.name, b.name) < 0

RECURSIVE insertItem(_, _)
insertItem(x, sorted) ==
    IF sorted = <<>> THEN <<x>>
    ELSE IF sortsBefore(x, Head(sorted)) THEN <<x>> \o sorted
    ELSE <<Head(sorted)>> \o insertItem(x, Tail(sorted))

\* The items are left in the order fs.readdir gave.
sortItemsSkipped(items) == items

\* items.sort(comparator)
RECURSIVE sortItems(_)
sortItems(items) ==
    IF items = <<>> THEN <<>>
    ELSE insertItem(items[Len(items)], sortItems(SubSeq(items, 1, Len(items) - 1)))

\* const item = { name: entry.name, isDirectory: entry.isDirectory() }
newItem(entry) ==
    [name |-> entry.name, isDirectory |-> entry.isDirectory,
     hasChildren |-> FALSE, children |-> <<>>, error |-> "none"]
NoItem == [name |-> "", isDirectory |-> FALSE, hasChildren |-> FALSE, children |-> <<>>, error |-> "none"]

\* A readDirectoryRecursive activation: the directory it reads, where it is
\* (enter, loop, await a nested call, done), the entries not yet visited, the
\* items collected, and the item whose children the nested call will return.
newFrame(node) == [node |-> node, phase |-> "enter", entries |-> <<>>, items |-> <<>>, item |-> NoItem]

\* const state = { count: 0, limit: maxEntries, truncated: false } with the limit ignored.
newBudgetDefaultLimit(maxEntries) == [count |-> 0, limit |-> 50, truncated |-> FALSE]

\* const state = { count: 0, limit: maxEntries, truncated: false }
newBudget(maxEntries) == [count |-> 0, limit |-> maxEntries, truncated |-> FALSE]

\* state.count > state.limit: the limit test off by one.
limitReachedOffByOne(state) == state.count > state.limit

\* state.count >= state.limit
limitReached(state) == state.count >= state.limit

\* The entry is not counted.
countEntryForgotten(state) == state

\* state.count++
countEntry(state) == [state EXCEPT !.count = state.count + 1]

\* Every failed readdir reported as an internal error.
readErrorCodeInternal(err) == "INTERNAL_ERROR"

\* The McpError code thrown for a failed readdir.
readErrorCode(err) ==
    CASE err = "ENOENT" -> "NOT_FOUND"
      [] err = "ENOTDIR" -> "VALIDATION_ERROR"
      [] OTHER -> "INTERNAL_ERROR"

\* fs.readdir handing out the entries already sorted, directories first.
readdirSorted(node) == sortItems(node.entries)

\* const entries = await fs.readdir(dirPath, { withFileTypes: true }): the
\* entries in the order the file system gives them.
readdir(node) == node.entries

top == frames[Len(frames)]
parent == frames[Len(frames) - 1]
setTop(f) == [frames EXCEPT ![Len(frames)] = f]

\* The caller's loop ends with the nested call, whatever its outcome.
resumeParentStopping(item, truncated) ==
    Append(SubSeq(frames, 1, Len(frames) - 2),
           [parent EXCEPT !.items = Append(parent.items, item),
                          !.item = NoItem,
                          !.phase = "done"])

\* The caller's loop after the nested call ended: push the item, stop when truncated.
resumeParent(item, truncated) ==
    Append(SubSeq(frames, 1, Len(frames) - 2),
           [parent EXCEPT !.items = Append(parent.items, item),
                          !.item = NoItem,
                          !.phase = IF truncated THEN "done" ELSE "loop"])

InitList ==
    /\ cwd \in WorkingDirs
    /\ configured = Null
    /\ fsBaseDirectory = Null
    /\ defaultFilesystemPath = Null
    /\ call = Idle
    /\ lastSet = Null
    /\ san = SanIdle
    /\ listInput \in [root : RootDirs, includeNested : BOOLEAN, maxEntries : 1..MaxLimit, locale : Locales]
    /\ budget = [count |-> 0, limit |-> 0, truncated |-> FALSE]
    /\ frames = <<>>
    /\ listOutput = [pc |-> "start", code |-> "OK", items |-> <<>>, itemCount |-> 0, truncated |-> FALSE]
    /\ readdirs = 0
    /\ suspended = NoCall
    /\ NoTree
    /\ NoTools
    /\ NoRate

\* listFilesLogic up to its call of readDirectoryRecursive on the resolved path.
ListFiles ==
    /\ listOutput.pc = "start"
    /\ budget' = newBudget(listInput.maxEntries)
    /\ frames' = <<newFrame(listInput.root)>>
    /\ listOutput' = [listOutput EXCEPT !.pc = "running"]
    /\ UNCHANGED <<listInput, readdirs, suspended>> /\ UNCHANGED pathVars /\ UNCHANGED treeVars /\ UNCHANGED toolVars /\ UNCHANGED rateVars

\* readDirectoryRecursive from its entry to the end of fs.readdir: the early
\* return when the limit is reached, the thrown error (fatal at the root,
\* caught by the caller's loop when nested), or the entries to loop over.
EnterDirectory ==
    /\ listOutput.pc = "running" /\ frames # <<>> /\ top.phase = "enter"
    /\ IF budget.truncated \/ limitReached(budget)
       THEN /\ budget' = [budget EXCEPT !.truncated = TRUE]
            /\ frames' = setTop([top EXCEPT !.phase = "done"])
            /\ UNCHANGED listOutput
       ELSE IF top.node.readError # "none"
       THEN IF Len(frames) = 1
            THEN /\ frames' = <<>>
                 /\ listOutput' = [listOutput EXCEPT !.pc = "failed",
                                                     !.code = readErrorCode(top.node.readError)]
                 /\ UNCHANGED budget
            ELSE /\ frames' = resumeParent([parent.item EXCEPT !.error = readErrorCode(top.node.readError),
                                                               !.hasChildren = FALSE,
                                                               !.children = <<>>],
                                           budget.truncated)
                 /\ UNCHANGED <<budget, listOutput>>
       ELSE /\ frames' = setTop([top EXCEPT !.phase = "loop", !.entries = readdir(top.node)])
            /\ UNCHANGED <<budget, listOutput>>
    /\ readdirs' = IF budget.truncated \/ limitReached(budget) THEN readdirs ELSE readdirs + 1
    /\ UNCHANGED <<listInput, suspended>> /\ UNCHANGED pathVars /\ UNCHANGED treeVars /\ UNCHANGED toolVars /\ UNCHANGED rateVars

\* One iteration of the for loop over the entries (or its end).
ProcessEntry ==
    /\ listOutput.pc = "running" /\ frames # <<>> /\ top.phase = "loop"
    /\ IF top.entries = <<>>
       THEN /\ frames' = setTop([top EXCEPT !.phase = "done"])
            /\ UNCHANGED budget
       ELSE IF limitReached(budget)
       THEN /\ budget' = [budget EXCEPT !.truncated = TRUE]
            /\ frames' = setTop([top EXCEPT !.phase = "done"])
       ELSE LET entry == Head(top.entries)
                item == newItem(entry)
            IN  /\ budget' = countEntry(budget)
                /\ IF item.isDirectory /\ listInput.includeNested
                   THEN frames' = Append(setTop([top EXCEPT !.entries = Tail(top.entries),
                                                            !.phase = "await",
                                                            !.item = item]),
                                         newFrame([readError |-> entry.readError, entries |-> entry.entries]))
                   ELSE frames' = setTop([top EXCEPT !.entries = Tail(top.entries),
                                                     !.items = Append(top.items, item),
                                                     !.phase = IF budget.truncated THEN "done" ELSE "loop"])
    /\ UNCHANGED <<listInput, listOutput, readdirs, suspended>> /\ UNCHANGED pathVars /\ UNCHANGED treeVars /\ UNCHANGED toolVars /\ UNCHANGED rateVars

\* The sort and the return of readDirectoryRecursive: to the caller's loop,
\* or from the outermost call to listFilesLogic, which builds its output.
ReturnItems ==
    /\ listOutput.pc = "running" /\ frames # <<>> /\ top.phase = "done"
    /\ LET sorted == sortItems(top.items)
       IN  IF Len(frames) = 1
           THEN /\ frames' = <<>>
                /\ listOutput' = [pc |-> "done", code |-> "OK", items |-> sorted,
                                  itemCount |-> budget.count, truncated |-> budget.truncated]
           ELSE /\ frames' = resumeParent([parent.item EXCEPT !.hasChildren = TRUE, !.children = sorted],
                                          budget.truncated)
                /\ UNCHANGED listOutput
    /\ UNCHANGED <<listInput, budget, readdirs, suspended>> /\ UNCHANGED pathVars /\ UNCHANGED treeVars /\ UNCHANGED toolVars /\ UNCHANGED rateVars

NextList == ListFiles \/ EnterDirectory \/ ProcessEntry \/ ReturnItems

SpecList == InitList /\ [][NextList]_vars

----------------------------------------------------------------------------
(* Properties of list_files *)

min(a, b) == IF a < b THEN a ELSE b

\* The number of entries of the listed directory.
RootEntryCount == Len(listInput.root.entries)

\* C9: during a listing, in every intermediate and final state, the count of
\* the budget is at most its limit, and once truncated is true no step
\* increments the count again.
C9_CountWithinLimit ==
    /\ [](budget.count <= budget.limit)
    /\ [][budget.truncated => budget'.count = budget.count /\ budget'.truncated]_vars

\* A recursive listing that ended truncated with the count at the limit, with
\* entries left uncounted below the root.
C9_Witness ==
    /\ listOutput.pc = "done"
    /\ listInput.includeNested
    /\ budget.truncated
    /\ budget.count = budget.limit
    /\ \E i \in 1..RootEntryCount : Len(listInput.root.entries[i].entries) > 0

\* C10: a non-recursive listing of a readable directory with n entries and
\* maxEntries = m returns itemCount = min(n, m), and truncated exactly when n > m.
C10_NonRecursiveCount ==
    (listOutput.pc = "done" /\ ~listInput.includeNested /\ listInput.root.readError = "none")
        => /\ listOutput.itemCount = min(RootEntryCount, listInput.maxEntries)
           /\ listOutput.truncated = (RootEntryCount > listInput.maxEntries)
           /\ Len(listOutput.items) = listOutput.itemCount

\* A non-recursive listing of three entries with maxEntries 2 has returned
\* two items, truncated.
C10_Witness ==
    /\ listOutput.pc = "done"
    /\ ~listInput.includeNested
    /\ RootEntryCount = 3
    /\ listInput.maxEntries = 2
    /\ listOutput.itemCount = 2
    /\ listOutput.truncated

\* The number of DirectoryItems in a list of items, children included at every level.
RECURSIVE itemTotal(_)
itemTotal(items) ==
    IF items = <<>> THEN 0
    ELSE 1 + (IF Head(items).hasChildren THEN itemTotal(Head(items).children) ELSE 0)
           + itemTotal(Tail(items))

\* C11: in a recursive listing the limit is global: the number of items of
\* the returned tree, summed over all levels, equals the returned itemCount
\* and never exceeds maxEntries.
C11_GlobalLimit ==
    (listOutput.pc = "done" /\ listInput.includeNested)
        => /\ itemTotal(listOutput.items) = listOutput.itemCount
           /\ listOutput.itemCount <= listInput.maxEntries

\* C11 witness: a recursive listing whose items are spread over two levels
\* reached the limit of three and was cut.
C11_Witness ==
    /\ listOutput.pc = "done" /\ listInput.includeNested
    /\ listInput.maxEntries = 3 /\ listOutput.itemCount = 3 /\ listOutput.truncated
    /\ \E i \in 1..Len(listOutput.items) :
          listOutput.items[i].hasChildren /\ Len(listOutput.items[i].children) > 0
    /\ Len(listOutput.items) > 1

\* The code unit of a name's letter, the key of a case-sensitive comparison.
codeUnit(n) == CASE n = "B" -> 66 [] n = "a" -> 97 [] n = "b" -> 98 [] OTHER -> 0

\* The letter of a name with its case folded.
foldCase(n) == IF n = "B" THEN "b" ELSE n

\* Every level of a list of items: the list itself and every children list.
RECURSIVE levelsOf(_)
levelsOf(items) ==
    {items} \cup UNION {IF items[i].hasChildren THEN levelsOf(items[i].children) ELSE {}
                        : i \in 1..Len(items)}

\* In a level all directories precede all files.
directoriesFirst(level) ==
    \A i, j \in 1..Len(level) : (i < j /\ level[j].isDirectory) => level[i].isDirectory

\* C12 as stated: at every level of the returned tree all directories
\* precede all files, and within each kind the names ascend in
\* case-sensitive (code unit) order.
C12_CaseSensitiveOrder ==
    listOutput.pc = "done" =>
        \A level \in levelsOf(listOutput.items) :
            /\ directoriesFirst(level)
            /\ \A i, j \in 1..Len(level) :
                  (i < j /\ level[i].isDirectory = level[j].isDirectory)
                      => codeUnit(level[i].name) < codeUnit(level[j].name)

\* C12 amended: at every level of the returned tree all directories precede
\* all files, and within each kind the names ascend in the collation order
\* of the host's locale: alphabetically whatever the case, the case deciding
\* only between names that differ in case alone (lowercase first, or
\* uppercase first in a locale such as Danish).
C12_CollationOrder ==
    listOutput.pc = "done" =>
        \A level \in levelsOf(listOutput.items) :
            /\ directoriesFirst(level)
            /\ \A i, j \in 1..Len(level) :
                  (i < j /\ level[i].isDirectory = level[j].isDirectory)
                      => \/ codeUnit(foldCase(level[i].name)) < codeUnit(foldCase(level[j].name))
                         \/ /\ foldCase(level[i].name) = foldCase(level[j].name)
                            /\ level[i].name = (IF listInput.locale = "da-DK" THEN "B" ELSE "b")

\* C12 witness: entries read as b (file), a (file), B (directory) are
\* returned as B, a, b.
C12_Witness ==
    /\ listOutput.pc = "done"
    /\ Len(listInput.root.entries) = 3
    /\ listInput.root.entries[1] = File("b")
    /\ listInput.root.entries[2] = File("a")
    /\ listInput.root.entries[3].isDirectory
    /\ Len(listOutput.items) = 3
    /\ listOutput.items[1].name = "B" /\ listOutput.items[2].name = "a" /\ listOutput.items[3].name = "b"

\* The number of entries of the listed directory that were listed: the
\* loop visits the entries in the order fs.readdir gave them.
RootListed == Len(listOutput.items)

\* The item listed for entry k of the listed directory.
rootItemOf(k) ==
    CHOOSE item \in Range(listOutput.items) : item.name = listInput.root.entries[k].name

\* Entry k of the listed directory is a directory whose read fails.
unreadable(k) ==
    listInput.root.entries[k].isDirectory /\ listInput.root.entries[k].readError # "none"

\* The budget ran out: the listing is cut with the count at the limit.
budgetExhausted == listOutput.truncated /\ listOutput.itemCount = listInput.maxEntries

\* C13: in a recursive listing a nested directory whose read fails does not
\* fail the call: the directory is listed as an item with its error and
\* without children (unless the budget ran out with that very item, so that
\* it was never read), and the entries after it are still listed as long as
\* the budget allows.
C13_NestedErrorRecovered ==
    /\ (listInput.includeNested /\ listInput.root.readError = "none") => listOutput.pc # "failed"
    /\ (listOutput.pc = "done" /\ listInput.includeNested) =>
          \A k \in 1..RootListed :
              unreadable(k) =>
                  /\ \/ /\ rootItemOf(k).error = readErrorCode(listInput.root.entries[k].readError)
                        /\ ~rootItemOf(k).hasChildren
                     \/ /\ budgetExhausted /\ k = RootListed
                        /\ rootItemOf(k).error = "none"
                  /\ (k < RootEntryCount /\ rootItemOf(k).error # "none")
                        => (k + 1 <= RootListed \/ budgetExhausted)

\* C13 witness: the first entry read is a missing directory, the file read
\* after it is listed as well, and the listing is complete.
C13_Witness ==
    /\ listOutput.pc = "done" /\ listInput.includeNested /\ ~listOutput.truncated
    /\ RootEntryCount = 2 /\ RootListed = 2
    /\ listInput.root.entries[1] = Dir("a", "ENOENT", <<>>)
    /\ listInput.root.entries[2] = File("b")
    /\ rootItemOf(1).error = "NOT_FOUND" /\ ~rootItemOf(1).hasChildren

\* C14: when reading the listed directory itself fails, the whole call
\* fails and returns no tree: with NOT_FOUND when the directory does not
\* exist, with VALIDATION_ERROR when the path is not a directory.
C14_RootErrorFatal ==
    (listInput.root.readError # "none" /\ listOutput.pc \notin {"none", "start", "running"})
        => /\ listOutput.pc = "failed"
           /\ listOutput.items = <<>>
           /\ listInput.root.readError = "ENOENT" => listOutput.code = "NOT_FOUND"
           /\ listInput.root.readError = "ENOTDIR" => listOutput.code = "VALIDATION_ERROR"

\* C14 witness: a recursive listing of a path that is not a directory has failed.
C14_Witness ==
    /\ listOutput.pc = "failed" /\ listOutput.code = "VALIDATION_ERROR"
    /\ listInput.root.readError = "ENOTDIR" /\ listInput.includeNested

----------------------------------------------------------------------------
(* buildTree with exclude patterns: buildTreeForTesting and minimatch *)

Star == "*"

\* The pattern portion "**"
GlobStar == <<Star, Star>>

\* A name is matched whenever it starts with the pattern portion.
matchSegmentAsPrefix(name, pat) == startsWith(name, pat)

\* minimatch on one path portion with { dot: true }: "*" stands for any run
\* of characters, every other character for itself.
RECURSIVE matchSegment(_, _)
matchSegment(name, pat) ==
    IF pat = <<>> THEN name = <<>>
    ELSE IF Head(pat) = Star
         THEN matchSegment(name, Tail(pat)) \/ (name # <<>> /\ matchSegment(Tail(name), pat))
         ELSE name # <<>> /\ Head(name) = Head(pat) /\ matchSegment(Tail(name), Tail(pat))

\* minimatch's matchOne: the portions of a path against the portions of a
\* pattern. "**" followed by more pattern stands for zero or more portions;
\* a trailing "**" swallows the rest of a path that has portions left.
RECURSIVE matchOne(_, _)
matchOne(file, pattern) ==
    IF file = <<>> THEN pattern = <<>>
    ELSE IF pattern = <<>> THEN FALSE
    ELSE IF Head(pattern) = GlobStar
         THEN IF Tail(pattern) = <<>> THEN TRUE
              ELSE \E k \in 0..(Len(file) - 1) : matchOne(SubSeq(file, k + 1, Len(file)), Tail(pattern))
         ELSE matchSegment(Head(file), Head(pattern)) /\ matchOne(Tail(file), Tail(pattern))

\* minimatch(relativePath, pattern, { dot: true })
minimatch(p, pattern) == matchOne(split(p), split(pattern))

\* pattern.includes('*')
includesStar(pattern) == Star \in Range(pattern)

\* Every pattern is tested as written only.
shouldExcludeAsWritten(relativePath, excludePatterns) ==
    \E i \in 1..Len(excludePatterns) : minimatch(relativePath, excludePatterns[i])

\* excludePatterns.some(...): a pattern with "*" is tested as written, any
\* other pattern as written, as **/pattern and as **/pattern/**.
shouldExclude(relativePath, excludePatterns) ==
    \E i \in 1..Len(excludePatterns) :
        LET pattern == excludePatterns[i]
        IN  IF includesStar(pattern)
            THEN minimatch(relativePath, pattern)
            ELSE \/ minimatch(relativePath, pattern)
                 \/ minimatch(relativePath, GlobStar \o <<Sep>> \o pattern)
                 \/ minimatch(relativePath, GlobStar \o <<Sep>> \o pattern \o <<Sep>> \o GlobStar)

\* An excluded directory is dropped but what the walk found in it is kept.
pushOrFlatten(excluded, entryData) == IF excluded THEN entryData.children ELSE <<entryData>>

\* if (shouldExclude) continue; ... result.push(entryData)
pushUnlessExcluded(excluded, entryData) == IF excluded THEN <<>> ELSE <<entryData>>

\* buildTreeForTesting(currentPath, rootPath, excludePatterns), where entries is
\* what fs.readdir(currentPath) returns.
RECURSIVE buildTreeForTesting(_, _, _, _)
buildTreeForTesting(entries, currentPath, rootPath, excludePatterns) ==
    IF entries = <<>> THEN <<>>
    ELSE LET entry == Head(entries)
             subPath == join(currentPath, entry.name)
             relativePath == relative(rootPath, subPath)
             entryData == [name |-> entry.name,
                           type |-> IF entry.isDirectory THEN "directory" ELSE "file",
                           children |-> IF entry.isDirectory
                                        THEN buildTreeForTesting(entry.entries, subPath, rootPath, excludePatterns)
                                        ELSE <<>>]
         IN  pushUnlessExcluded(shouldExclude(relativePath, excludePatterns), entryData)
                 \o buildTreeForTesting(Tail(entries), currentPath, rootPath, excludePatterns)

\* The directory the walk starts from.
TreeRoot == <<Sep, "r">>

\* Entry names: at the top level a name and a name that extends it, below a
\* name that occurs at the top level too and one that does not.
RootNames == << <<"a">>, <<"a", "a">> >>
NestedNames == << <<"a">>, <<"b">> >>

\* The listings of a directory over names: each name absent, a file, or a
\* directory with one of subListings.
RECURSIVE ListingsWith(_, _)
ListingsWith(names, subListings) ==
    IF names = <<>> THEN {<<>>}
    ELSE LET rests == ListingsWith(Tail(names), subListings)
             kinds == {File(Head(names))} \cup {Dir(Head(names), "none", es) : es \in subListings}
         IN  rests \cup {<<k>> \o r : k \in kinds, r \in rests}

DeepListings == ListingsWith(NestedNames, {})
MidListings == ListingsWith(NestedNames, DeepListings)
TreeRoots == ListingsWith(RootNames, MidListings)

\* Pattern portions: names, globs with "*", and "**"; patterns of one or two portions.
PatternPortions == {<<"a">>, <<"a", "a">>, <<"b">>, <<Star>>, <<Star, "a">>, <<Star, "b">>, GlobStar}
Patterns == PatternPortions \cup {p \o <<Sep>> \o q : p, q \in PatternPortions}

\* excludePatterns: none, one pattern, or two names.
ExcludeLists == {<<>>} \cup {<<p>> : p \in Patterns} \cup {<< <<"a", "a">>, <<"b">> >>}

InitTree ==
    /\ cwd \in WorkingDirs
    /\ configured = Null
    /\ fsBaseDirectory = Null
    /\ defaultFilesystemPath = Null
    /\ call = Idle
    /\ lastSet = Null
    /\ san = SanIdle
    /\ NoListing
    /\ treeInput \in [root : TreeRoots, excludePatterns : ExcludeLists]
    /\ treeOutput = [pc |-> "start", tree |-> <<>>]
    /\ NoTools
    /\ NoRate

\* buildTreeForTesting(testDir, testDir, excludePatterns)
BuildTree ==
    /\ treeOutput.pc = "start"
    /\ treeOutput' = [pc |-> "done",
                      tree |-> buildTreeForTesting(treeInput.root, TreeRoot, TreeRoot, treeInput.excludePatterns)]
    /\ UNCHANGED treeInput /\ UNCHANGED pathVars /\ UNCHANGED listVars /\ UNCHANGED toolVars /\ UNCHANGED rateVars

NextTree == BuildTree

SpecTree == InitTree /\ [][NextTree]_vars

----------------------------------------------------------------------------
(* Properties of buildTree *)

\* The root-relative paths, as sequences of names, of the entries in a directory.
RECURSIVE fsPaths(_, _)
fsPaths(entries, prefix) ==
    UNION {{Append(prefix, entries[i].name)}
               \cup (IF entries[i].isDirectory
                     THEN fsPaths(entries[i].entries, Append(prefix, entries[i].name))
                     ELSE {})
           : i \in 1..Len(entries)}

\* The root-relative paths of the entries of a returned tree.
RECURSIVE treePaths(_, _)
treePaths(tree, prefix) ==
    UNION {{Append(prefix, tree[i].name)} \cup treePaths(tree[i].children, Append(prefix, tree[i].name))
           : i \in 1..Len(tree)}

EntryPaths == fsPaths(treeInput.root, <<>>)
ListedPaths == treePaths(treeOutput.tree, <<>>)

\* An entry's path and the paths of its ancestors below the root.
SelfAndAncestors(q) == {SubSeq(q, 1, k) : k \in 1..Len(q)}

\* The last names of path q are the portions of pattern p.
endsWithPortions(q, p) ==
    LET portions == split(p)
    IN  /\ Len(portions) <= Len(q)
        /\ SubSeq(q, Len(q) - Len(portions) + 1, Len(q)) = portions

PatternIndexes == 1..Len(treeInput.excludePatterns)

\* Patterns are given and none has a wildcard character.
PlainPatternsOnly ==
    /\ treeInput.excludePatterns # <<>>
    /\ \A i \in PatternIndexes : ~includesStar(treeInput.excludePatterns[i])

Reached(q) == Len(q) = 1 \/ SubSeq(q, 1, Len(q) - 1) \in ListedPaths

\* Path q matches pattern p as written, as **/p or as **/p/**.
matchesThreeForms(q, p) ==
    \/ minimatch(joinSegs(q), p)
    \/ minimatch(joinSegs(q), GlobStar \o <<Sep>> \o p)
    \/ minimatch(joinSegs(q), GlobStar \o <<Sep>> \o p \o <<Sep>> \o GlobStar)

\* C16 as stated: every pattern, with or without wildcard characters, is
\* tested in three forms against the root-relative path of an entry the walk
\* reaches: the entry is left out exactly when one form of a pattern matches.
C16_ThreeFormsForEveryPattern ==
    treeOutput.pc = "done" =>
        \A q \in EntryPaths :
            Reached(q) =>
                (q \notin ListedPaths
                    <=> \E i \in PatternIndexes : matchesThreeForms(q, treeInput.excludePatterns[i]))

\* C16 amended: a pattern without "*" is tested in three forms against the
\* root-relative path of an entry the walk reaches, a pattern with "*" only
\* as written: the entry is left out exactly when such a test matches (so
\* *b suppresses a matching name at the top level only, **/*b at every level).
C16_ThreeFormsForPlainPatterns ==
    treeOutput.pc = "done" =>
        \A q \in EntryPaths :
            Reached(q) =>
                (q \notin ListedPaths
                    <=> \E i \in PatternIndexes :
                            IF includesStar(treeInput.excludePatterns[i])
                            THEN minimatch(joinSegs(q), treeInput.excludePatterns[i])
                            ELSE matchesThreeForms(q, treeInput.excludePatterns[i]))

\* C16 witness: pattern **/*b suppresses b one and two levels down while
\* the directories above it stay listed.
C16_Witness ==
    /\ treeOutput.pc = "done"
    /\ treeInput.excludePatterns = << GlobStar \o <<Sep, Star, "b">> >>
    /\ {<< <<"a">>, <<"b">> >>, << <<"a">>, <<"a">>, <<"b">> >>} \subseteq EntryPaths
    /\ << <<"a">>, <<"a">> >> \in ListedPaths
    /\ << <<"a">>, <<"b">> >> \notin ListedPaths
    /\ << <<"a">>, <<"a">>, <<"b">> >> \notin ListedPaths

\* The entry at path a is excluded by the patterns of the call.
excludedEntry(a) == shouldExclude(joinSegs(a), treeInput.excludePatterns)

\* C17: an excluded directory is never descended into: an entry is in the
\* returned tree exactly when neither it nor a directory above it is
\* excluded, nothing else is in the tree, and with an empty pattern list
\* every entry is in the tree.
C17_ExcludedNeverDescended ==
    treeOutput.pc = "done" =>
        /\ ListedPaths \subseteq EntryPaths
        /\ \A q \in EntryPaths :
              q \in ListedPaths <=> \A a \in SelfAndAncestors(q) : ~excludedEntry(a)
        /\ treeInput.excludePatterns = <<>> => ListedPaths = EntryPaths

\* C17 witness: of two directories holding one file each, the excluded one
\* is gone with its file and the other is listed with its file.
C17_Witness ==
    /\ treeOutput.pc = "done"
    /\ treeInput.excludePatterns = << <<"a">> >>
    /\ treeInput.root = << Dir(<<"a">>, "none", <<File(<<"b">>)>>), Dir(<<"a", "a">>, "none", <<File(<<"b">>)>>) >>
    /\ ListedPaths = {<< <<"a", "a">> >>, << <<"a", "a">>, <<"b">> >>}

----------------------------------------------------------------------------
(* Further properties of list_files *)

\* The number of entries in a directory, at every level.
RECURSIVE entryTotal(_)
entryTotal(entries) ==
    IF entries = <<>> THEN 0
    ELSE 1 + entryTotal(Head(entries).entries) + entryTotal(Tail(entries))

\* Every directory at and below the listed one can be read.
everyDirectoryReadable ==
    /\ listInput.root.readError = "none"
    /\ \A i \in 1..RootEntryCount : listInput.root.entries[i].readError = "none"

\* The number of entries the listing has to visit.
EntriesToList ==
    IF listInput.includeNested THEN entryTotal(listInput.root.entries) ELSE RootEntryCount

\* C18: when every directory is readable and the tree under the listed
\* directory holds at most maxEntries entries, the listing is not truncated
\* and lists every entry, in recursive mode too.
C18_NoTruncationWithinBudget ==
    (/\ listOutput.pc = "done" /\ everyDirectoryReadable
     /\ entryTotal(listInput.root.entries) <= listInput.maxEntries)
        => /\ ~listOutput.truncated
           /\ itemTotal(listOutput.items) = EntriesToList

----------------------------------------------------------------------------
(* Properties of the sandbox base *)

\* A base directory is configured and the constructor's sanitizePath call refuses it.
ConfiguredBaseInvalid ==
    /\ truthy(configFsBaseDirectory(configured))
    /\ ~sanitizePath(configFsBaseDirectory(configured), StateOptions, cwd).ok

\* C19: when the configured base directory fails sanitization, the server
\* runs with the boundary disabled: no base is stored, no resolvePath call
\* fails with FORBIDDEN, and a request that has a candidate path gets what
\* sanitizePath alone answers for it.
C19_InvalidBaseDisablesBoundary ==
    ConfiguredBaseInvalid =>
        /\ fsBaseDirectory = Null
        /\ call.op = "resolvePath" =>
              /\ call.result # ErrR("FORBIDDEN")
              /\ HasCandidate => call.result = sanitizePath(Candidate, StateOptions, cwd)

\* C19 witness: the configured base holds a null byte, and a request for the
\* root of the file system is answered with that path.
C19_Witness ==
    /\ configured = <<Sep, NUL>>
    /\ call.op = "resolvePath" /\ call.arg = <<Sep>> /\ call.result = OkR(<<Sep>>)

\* C20: the stored base directory never changes after initialization: it is
\* in every state what the constructor made of the configured value, and no
\* call, successful or failing, assigns it.
C20_BaseWriteOnce ==
    /\ [](fsBaseDirectory = ServerStateInit(configFsBaseDirectory(configured), cwd))
    /\ [][fsBaseDirectory' = fsBaseDirectory /\ configured' = configured]_vars

\* C20 witness: with base /a, a request outside the base was refused while a
\* default path is set.
C20_Witness ==
    /\ fsBaseDirectory = <<Sep, "a">> /\ truthy(defaultFilesystemPath)
    /\ call.op = "resolvePath" /\ call.result = ErrR("FORBIDDEN")

\* C21: after initialization the base is absent or an absolute path: a
\* relative setting is resolved to an absolute path before it is stored (or
\* disables the boundary), and no relative base is ever stored.
C21_BaseAbsentOrAbsolute ==
    /\ fsBaseDirectory = Null \/ isAbsolute(fsBaseDirectory)
    /\ (truthy(configured) /\ ~isAbsolute(configured))
          => fsBaseDirectory \in {Null, resolve(ProjectRoot, <<configured>>)}

\* C21 witness: the relative setting "a" is stored as /a/a, and a request
\* inside that base is answered.
C21_Witness ==
    /\ configured = <<"a">> /\ fsBaseDirectory = <<Sep, "a", Sep, "a">>
    /\ call.op = "resolvePath" /\ call.result = OkR(<<Sep, "a", Sep, "a">>)


----------------------------------------------------------------------------
(* The tool handlers: write_file, create_directory, delete_file,            *)
(* delete_directory and move_path, as two requests that interleave at their *)
(* awaits with each other and with set_filesystem_default requests.  A      *)
(* handler runs from one await to the next without interruption; each       *)
(* awaited fs call is one step.                                             *)

\* path.dirname
RECURSIVE dirnameEnd(_, _, _)
dirnameEnd(p, i, matchedSlash) ==
    IF i < 2 THEN 0
    ELSE IF p[i] = Sep
         THEN IF ~matchedSlash THEN i - 1 ELSE dirnameEnd(p, i - 1, matchedSlash)
         ELSE dirnameEnd(p, i - 1, FALSE)

dirname(p) ==
    IF p = <<>> THEN Dot
    ELSE LET hasRoot == p[1] = Sep
             end == dirnameEnd(p, Len(p), TRUE)
         IN  IF end = 0 THEN (IF hasRoot THEN <<Sep>> ELSE Dot)
             ELSE IF hasRoot /\ end = 1 THEN <<Sep, Sep>>
             ELSE SubSeq(p, 1, end)

\* The locations of the disk, and what can be at one.
FsRoot == <<Sep>>
Places ==
    { FsRoot, <<Sep, "a">>, <<Sep, "a", Sep, "a">>, <<Sep, "a", Sep, "b">>,
      <<Sep, "a", Sep, "a", Sep, "a">>, <<Sep, "a", Sep, "b", Sep, "a">> }
Kinds == {"none", "file", "dir"}

\* The location a path string names.
placeOf(p) == normalize(p)

\* q lies strictly under directory p.
under(q, p) == q # p /\ (p = FsRoot \/ startsWith(q, p \o <<Sep>>))

kind(d, p) == IF placeOf(p) \in Places THEN d[placeOf(p)] ELSE "none"
hasChildren(d, p) == \E q \in Places : under(q, placeOf(p)) /\ d[q] # "none"

\* The error of fs.stat / fs.access on p ("OK" when p exists).
statCode(d, p) ==
    IF kind(d, p) # "none" THEN "OK"
    ELSE IF \E q \in Places : under(placeOf(p), q) /\ d[q] = "file" THEN "ENOTDIR"
    ELSE "ENOENT"

\* fs.mkdir(p, { recursive: true }): p and its missing ancestors become directories.
mkdirRecursive(d, p) ==
    LET chain == { q \in Places : q = placeOf(p) \/ under(placeOf(p), q) }
    IN  IF placeOf(p) \notin Places THEN [disk |-> d, code |-> "ENOENT"]
        ELSE IF \E q \in chain : d[q] = "file"
        THEN [disk |-> d, code |-> IF d[placeOf(p)] = "file" THEN "EEXIST" ELSE "ENOTDIR"]
        ELSE [disk |-> [q \in Places |-> IF q \in chain THEN "dir" ELSE d[q]], code |-> "OK"]

\* fs.mkdir(p, { recursive: false })
mkdirPlain(d, p) ==
    IF kind(d, p) # "none" THEN [disk |-> d, code |-> "EEXIST"]
    ELSE IF placeOf(p) \notin Places \/ kind(d, dirname(placeOf(p))) # "dir"
    THEN [disk |-> d, code |-> statCode(d, dirname(placeOf(p)))]
    ELSE [disk |-> [d EXCEPT ![placeOf(p)] = "dir"], code |-> "OK"]

\* fs.mkdir(p, { recursive })
mkdir(d, p, recursive) == IF recursive THEN mkdirRecursive(d, p) ELSE mkdirPlain(d, p)

\* fs.writeFile(p, content): creates the file or replaces its content.
writeFile(d, p) ==
    IF kind(d, p) = "dir" THEN [disk |-> d, code |-> "EISDIR"]
    ELSE IF placeOf(p) \notin Places \/ kind(d, dirname(placeOf(p))) # "dir"
    THEN [disk |-> d, code |-> IF statCode(d, p) = "ENOTDIR" THEN "ENOTDIR" ELSE "ENOENT"]
    ELSE [disk |-> [d EXCEPT ![placeOf(p)] = "file"], code |-> "OK"]

\* fs.unlink(p)
unlink(d, p) ==
    IF kind(d, p) = "file" THEN [disk |-> [d EXCEPT ![placeOf(p)] = "none"], code |-> "OK"]
    ELSE IF kind(d, p) = "dir" THEN [disk |-> d, code |-> "EISDIR"]
    ELSE [disk |-> d, code |-> statCode(d, p)]

\* fs.rmdir(p)
rmdir(d, p) ==
    IF kind(d, p) = "dir"
    THEN IF hasChildren(d, p) \/ placeOf(p) = FsRoot THEN [disk |-> d, code |-> "ENOTEMPTY"]
         ELSE [disk |-> [d EXCEPT ![placeOf(p)] = "none"], code |-> "OK"]
    ELSE IF kind(d, p) = "file" THEN [disk |-> d, code |-> "ENOTDIR"]
    ELSE [disk |-> d, code |-> statCode(d, p)]

\* fs.rm(p, { recursive: true, force: true })
rm(d, p) ==
    IF placeOf(p) = FsRoot THEN [disk |-> d, code |-> "EPERM"]
    ELSE [disk |-> [q \in Places |-> IF q = placeOf(p) \/ under(q, placeOf(p)) THEN "none" ELSE d[q]],
          code |-> "OK"]

\* fs.rename(s, t): POSIX rename, which replaces a file or an empty
\* directory at t by what is at s.
rename(d, s, t) ==
    LET from == placeOf(s)
        to == placeOf(t)
        moved(q) == from \o SubSeq(q, Len(to) + 1, Len(q))
    IN  IF kind(d, s) = "none" THEN [disk |-> d, code |-> statCode(d, s)]
        ELSE IF to \notin Places \/ kind(d, dirname(to)) # "dir" THEN [disk |-> d, code |-> "ENOENT"]
        ELSE IF from = to THEN [disk |-> d, code |-> "OK"]
        ELSE IF under(to, from) THEN [disk |-> d, code |-> "EINVAL"]
        ELSE IF kind(d, t) = "dir" /\ kind(d, s) = "file" THEN [disk |-> d, code |-> "EISDIR"]
        ELSE IF kind(d, t) = "file" /\ kind(d, s) = "dir" THEN [disk |-> d, code |-> "ENOTDIR"]
        ELSE IF kind(d, t) = "dir" /\ hasChildren(d, t) THEN [disk |-> d, code |-> "ENOTEMPTY"]
        ELSE [disk |-> [q \in Places |->
                          IF q = to \/ under(q, to)
                          THEN (IF moved(q) \in Places THEN d[moved(q)] ELSE "none")
                          ELSE IF q = from \/ under(q, from) THEN "none"
                          ELSE d[q]],
              code |-> "OK"]

\* The requests of the model.
RequestIds == {1, 2}
ToolBases == { <<Sep, "a">>, <<Sep, "a", Sep, "a">> }
ToolDefaults == { <<Sep, "a">>, <<Sep, "a", Sep, "a">> }
ToolPaths == { <<"a">>, <<Sep, "a", Sep, "a">>, <<Sep, "a", Sep, "b">> }
MovePairs ==
    { << <<Sep, "a", Sep, "a">>, <<Sep, "a", Sep, "b">> >>,
      << <<Sep, "a", Sep, "b">>, <<Sep, "a", Sep, "a">> >>,
      << <<"a">>, <<Sep, "a", Sep, "b">> >>,
      << <<"a">>, <<"a">> >> }

\* A disk holding the given files and directories (and the root directory).
diskWith(files, dirs) ==
    [q \in Places |-> IF q = FsRoot \/ q \in dirs THEN "dir" ELSE IF q \in files THEN "file" ELSE "none"]
InitialDisks ==
    { diskWith({}, {}),
      diskWith({<<Sep, "a", Sep, "a">>}, {<<Sep, "a">>}),
      diskWith({<<Sep, "a", Sep, "a", Sep, "a">>}, {<<Sep, "a">>, <<Sep, "a", Sep, "a">>}) }

InitTools ==
    /\ cwd \in WorkingDirs
    /\ configured \in ToolBases
    /\ fsBaseDirectory = ServerStateInit(configFsBaseDirectory(configured), cwd)
    /\ defaultFilesystemPath = Null
    /\ call = Idle
    /\ lastSet = Null
    /\ san = SanIdle
    /\ NoListing
    /\ NoTree
    /\ NoRate
    /\ disk \in InitialDisks
    /\ requests = [i \in RequestIds |-> NoRequest]
    /\ fsCall = NoFsCall

toolFrame == UNCHANGED <<cwd, configured, fsBaseDirectory, call, lastSet, san>>
                /\ UNCHANGED listVars /\ UNCHANGED treeVars /\ UNCHANGED rateVars

\* The request ends: it returns (code "OK") or throws an McpError with the
\* code; the slot keeps the tool and the outcome.
finish(i, c) == [requests EXCEPT ![i] = [NoRequest EXCEPT !.tool = requests[i].tool, !.pc = "done", !.code = c]]
goto(i, pc) == [requests EXCEPT ![i].pc = pc]
at(i, tool, pc) == requests[i].tool = tool /\ requests[i].pc = pc
issued(i, op, target) == [op |-> op, target |-> target, other |-> Null, by |-> i, destExisted |-> FALSE]

\* History: the session default a resolvePath call read (it reads the
\* default only for a relative path).
defaultRead(requestedPath) == IF isAbsolute(requestedPath) THEN Null ELSE defaultFilesystemPath

\* A handler from its call to its first await: serverState.resolvePath on
\* the requested path, which throws before any fs call when it fails.
begin(i, tool, requestedPath, flag, first) ==
    LET r == resolvePath(defaultFilesystemPath, fsBaseDirectory, requestedPath, cwd)
    IN  /\ requests[i].pc = "idle"
        /\ requests' = IF ~r.ok THEN [requests EXCEPT ![i] = [NoRequest EXCEPT !.tool = tool, !.pc = "done", !.code = r.code]]
                       ELSE [requests EXCEPT ![i] =
                               [tool |-> tool, path |-> requestedPath, dest |-> Null, flag |-> flag,
                                pc |-> first, abs |-> r.path, absDest |-> Null,
                                seen |-> defaultRead(requestedPath), code |-> "none"]]
        /\ fsCall' = NoFsCall /\ UNCHANGED <<disk, defaultFilesystemPath>> /\ toolFrame

\* set_filesystem_default re-resolving the paths of the requests in flight
\* against the new default.
SetFilesystemDefaultRebasing(newPath) ==
    LET r == setDefaultFilesystemPath(defaultFilesystemPath, newPath, cwd)
        again(q) == resolvePath(r.default, fsBaseDirectory, q.path, cwd)
    IN  /\ defaultFilesystemPath' = r.default
        /\ requests' = [j \in RequestIds |->
                          IF requests[j].pc \notin {"idle", "done"} /\ again(requests[j]).ok
                          THEN [requests[j] EXCEPT !.abs = again(requests[j]).path]
                          ELSE requests[j]]
        /\ fsCall' = NoFsCall /\ UNCHANGED disk /\ toolFrame

\* setFilesystemDefaultLogic, a request of its own: it has no await, so it
\* sets the default and returns between two steps of the other requests.
SetFilesystemDefault(newPath) ==
    LET r == setDefaultFilesystemPath(defaultFilesystemPath, newPath, cwd)
    IN  /\ defaultFilesystemPath' = r.default
        /\ defaultFilesystemPath' # defaultFilesystemPath
        /\ fsCall' = NoFsCall /\ UNCHANGED <<disk, requests>> /\ toolFrame

\* serverState.clearDefaultFilesystemPath(), between two steps of the requests.
ClearDefault ==
    /\ truthy(defaultFilesystemPath)
    /\ defaultFilesystemPath' = Null
    /\ fsCall' = NoFsCall /\ UNCHANGED <<disk, requests>> /\ toolFrame

\* writeFileLogic: resolvePath, then await fs.stat.
WriteFileBegin(i, requestedPath) == begin(i, "write_file", requestedPath, FALSE, "stat")

\* writeFileLogic after fs.stat: a directory is refused, a missing path is fine.
WriteFileStat(i) ==
    /\ at(i, "write_file", "stat")
    /\ requests' = IF kind(disk, requests[i].abs) = "dir" THEN finish(i, "VALIDATION_ERROR")
                   ELSE IF statCode(disk, requests[i].abs) \in {"OK", "ENOENT"} THEN goto(i, "mkdir")
                   ELSE finish(i, "INTERNAL_ERROR")
    /\ fsCall' = NoFsCall /\ UNCHANGED <<disk, defaultFilesystemPath>> /\ toolFrame

\* await fs.mkdir(path.dirname(absolutePath), { recursive: true })
WriteFileMkdir(i) ==
    LET dirName == dirname(requests[i].abs)
        r == mkdir(disk, dirName, TRUE)
    IN  /\ at(i, "write_file", "mkdir")
        /\ disk' = r.disk
        /\ fsCall' = issued(i, "mkdir", dirName)
        /\ requests' = IF r.code = "OK" THEN goto(i, "writeFile") ELSE finish(i, "INTERNAL_ERROR")
        /\ UNCHANGED defaultFilesystemPath /\ toolFrame

\* await fs.writeFile(absolutePath, content, 'utf8')
WriteFileWrite(i) ==
    LET r == writeFile(disk, requests[i].abs)
    IN  /\ at(i, "write_file", "writeFile")
        /\ disk' = r.disk
        /\ fsCall' = issued(i, "writeFile", requests[i].abs)
        /\ requests' = finish(i, IF r.code = "OK" THEN "OK" ELSE "INTERNAL_ERROR")
        /\ UNCHANGED defaultFilesystemPath /\ toolFrame

\* createDirectoryLogic: resolvePath, then await fs.stat.
CreateDirectoryBegin(i, requestedPath, create_parents) ==
    begin(i, "create_directory", requestedPath, create_parents, "stat")

\* createDirectoryLogic after fs.stat: an existing directory is a success,
\* an existing file an error.
CreateDirectoryStat(i) ==
    /\ at(i, "create_directory", "stat")
    /\ requests' = IF kind(disk, requests[i].abs) = "dir" THEN finish(i, "OK")
                   ELSE IF kind(disk, requests[i].abs) = "file" THEN finish(i, "VALIDATION_ERROR")
                   ELSE IF statCode(disk, requests[i].abs) = "ENOENT" THEN goto(i, "mkdir")
                   ELSE finish(i, "INTERNAL_ERROR")
    /\ fsCall' = NoFsCall /\ UNCHANGED <<disk, defaultFilesystemPath>> /\ toolFrame

\* await fs.mkdir(absolutePath, { recursive: create_parents })
CreateDirectoryMkdir(i) ==
    LET r == mkdir(disk, requests[i].abs, requests[i].flag)
    IN  /\ at(i, "create_directory", "mkdir")
        /\ disk' = r.disk
        /\ fsCall' = issued(i, "mkdir", requests[i].abs)
        /\ requests' = finish(i, IF r.code = "OK" THEN "OK" ELSE "INTERNAL_ERROR")
        /\ UNCHANGED defaultFilesystemPath /\ toolFrame

\* deleteFileLogic: resolvePath, then await fs.stat.
DeleteFileBegin(i, requestedPath) == begin(i, "delete_file", requestedPath, FALSE, "stat")

\* deleteFileLogic after fs.stat
DeleteFileStat(i) ==
    /\ at(i, "delete_file", "stat")
    /\ requests' = IF statCode(disk, requests[i].abs) = "ENOENT" THEN finish(i, "NOT_FOUND")
                   ELSE IF statCode(disk, requests[i].abs) # "OK" THEN finish(i, "INTERNAL_ERROR")
                   ELSE IF kind(disk, requests[i].abs) # "file" THEN finish(i, "VALIDATION_ERROR")
                   ELSE goto(i, "unlink")
    /\ fsCall' = NoFsCall /\ UNCHANGED <<disk, defaultFilesystemPath>> /\ toolFrame

\* await fs.unlink(absolutePath)
DeleteFileUnlink(i) ==
    LET r == unlink(disk, requests[i].abs)
    IN  /\ at(i, "delete_file", "unlink")
        /\ disk' = r.disk
        /\ fsCall' = issued(i, "unlink", requests[i].abs)
        /\ requests' = finish(i, IF r.code = "OK" THEN "OK"
                                 ELSE IF r.code = "ENOENT" THEN "NOT_FOUND" ELSE "INTERNAL_ERROR")
        /\ UNCHANGED defaultFilesystemPath /\ toolFrame

\* deleteDirectoryLogic: resolvePath, then await fs.stat.
DeleteDirectoryBegin(i, requestedPath, recursive) ==
    begin(i, "delete_directory", requestedPath, recursive, "stat")

\* deleteDirectoryLogic after fs.stat
DeleteDirectoryStat(i) ==
    /\ at(i, "delete_directory", "stat")
    /\ requests' = IF statCode(disk, requests[i].abs) = "ENOENT" THEN finish(i, "NOT_FOUND")
                   ELSE IF statCode(disk, requests[i].abs) # "OK" THEN finish(i, "INTERNAL_ERROR")
                   ELSE IF kind(disk, requests[i].abs) # "dir" THEN finish(i, "VALIDATION_ERROR")
                   ELSE goto(i, "remove")
    /\ fsCall' = NoFsCall /\ UNCHANGED <<disk, defaultFilesystemPath>> /\ toolFrame

\* await fs.rm(absolutePath, { recursive: true, force: true }), or await
\* fs.rmdir(absolutePath) when not recursive.
DeleteDirectoryRemove(i) ==
    LET r == IF requests[i].flag THEN rm(disk, requests[i].abs) ELSE rmdir(disk, requests[i].abs)
    IN  /\ at(i, "delete_directory", "remove")
        /\ disk' = r.disk
        /\ fsCall' = issued(i, IF requests[i].flag THEN "rm" ELSE "rmdir", requests[i].abs)
        /\ requests' = finish(i, CASE r.code = "OK" -> "OK"
                                   [] r.code = "ENOENT" -> "NOT_FOUND"
                                   [] r.code = "ENOTEMPTY" /\ ~requests[i].flag -> "VALIDATION_ERROR"
                                   [] OTHER -> "INTERNAL_ERROR")
        /\ UNCHANGED defaultFilesystemPath /\ toolFrame

\* movePathLogic from its call to its first await: both paths are resolved
\* one after the other, then compared.
MovePathBegin(i, requestedSourcePath, requestedDestPath) ==
    LET absoluteSourcePath == resolvePath(defaultFilesystemPath, fsBaseDirectory, requestedSourcePath, cwd)
        absoluteDestPath == resolvePath(defaultFilesystemPath, fsBaseDirectory, requestedDestPath, cwd)
        code == IF ~absoluteSourcePath.ok THEN absoluteSourcePath.code
                ELSE IF ~absoluteDestPath.ok THEN absoluteDestPath.code
                ELSE IF absoluteSourcePath.path = absoluteDestPath.path THEN "VALIDATION_ERROR"
                ELSE "none"
    IN  /\ requests[i].pc = "idle"
        /\ requests' = IF code # "none"
                       THEN [requests EXCEPT ![i] = [NoRequest EXCEPT !.tool = "move_path", !.pc = "done", !.code = code]]
                       ELSE [requests EXCEPT ![i] =
                               [tool |-> "move_path", path |-> requestedSourcePath, dest |-> requestedDestPath,
                                flag |-> FALSE, pc |-> "accessSource",
                                abs |-> absoluteSourcePath.path, absDest |-> absoluteDestPath.path,
                                seen |-> IF isAbsolute(requestedSourcePath) THEN defaultRead(requestedDestPath)
                                         ELSE defaultRead(requestedSourcePath),
                                code |-> "none"]]
        /\ fsCall' = NoFsCall /\ UNCHANGED <<disk, defaultFilesystemPath>> /\ toolFrame

\* 1. await fs.access(absoluteSourcePath)
MovePathAccessSource(i) ==
    /\ at(i, "move_path", "accessSource")
    /\ requests' = IF statCode(disk, requests[i].abs) = "OK" THEN goto(i, "accessDestDir")
                   ELSE IF statCode(disk, requests[i].abs) = "ENOENT" THEN finish(i, "NOT_FOUND")
                   ELSE finish(i, "INTERNAL_ERROR")
    /\ fsCall' = NoFsCall /\ UNCHANGED <<disk, defaultFilesystemPath>> /\ toolFrame

\* 2. await fs.access(path.dirname(absoluteDestPath))
MovePathAccessDestDir(i) ==
    /\ at(i, "move_path", "accessDestDir")
    /\ requests' = IF statCode(disk, dirname(requests[i].absDest)) = "OK" THEN goto(i, "accessDest")
                   ELSE finish(i, "VALIDATION_ERROR")
    /\ fsCall' = NoFsCall /\ UNCHANGED <<disk, defaultFilesystemPath>> /\ toolFrame

\* The McpError code the request ends with when fs.access finds the
\* destination: the VALIDATION_ERROR is thrown inside the try block whose
\* catch rethrows everything but ENOENT as INTERNAL_ERROR.
destinationExistsCode == "INTERNAL_ERROR"

\* 3. await fs.access(absoluteDestPath): the destination must not exist.
MovePathAccessDest(i) ==
    /\ at(i, "move_path", "accessDest")
    /\ requests' = IF statCode(disk, requests[i].absDest) = "OK" THEN finish(i, destinationExistsCode)
                   ELSE IF statCode(disk, requests[i].absDest) = "ENOENT" THEN goto(i, "rename")
                   ELSE finish(i, "INTERNAL_ERROR")
    /\ fsCall' = NoFsCall /\ UNCHANGED <<disk, defaultFilesystemPath>> /\ toolFrame

\* 4. await fs.rename(absoluteSourcePath, absoluteDestPath)
MovePathRename(i) ==
    LET r == rename(disk, requests[i].abs, requests[i].absDest)
    IN  /\ at(i, "move_path", "rename")
        /\ disk' = r.disk
        /\ fsCall' = [op |-> "rename", target |-> requests[i].abs, other |-> requests[i].absDest, by |-> i,
                      destExisted |-> kind(disk, requests[i].absDest) # "none"]
        /\ requests' = finish(i, IF r.code = "OK" THEN "OK" ELSE "INTERNAL_ERROR")
        /\ UNCHANGED defaultFilesystemPath /\ toolFrame

NextTools ==
    \/ \E p \in ToolDefaults : SetFilesystemDefault(p)
    \/ ClearDefault
    \/ \E i \in RequestIds, p \in ToolPaths : WriteFileBegin(i, p)
    \/ \E i \in RequestIds : WriteFileStat(i)
    \/ \E i \in RequestIds : WriteFileMkdir(i)
    \/ \E i \in RequestIds : WriteFileWrite(i)
    \/ \E i \in RequestIds, p \in ToolPaths, f \in BOOLEAN : CreateDirectoryBegin(i, p, f)
    \/ \E i \in RequestIds : CreateDirectoryStat(i)
    \/ \E i \in RequestIds : CreateDirectoryMkdir(i)
    \/ \E i \in RequestIds, p \in ToolPaths : DeleteFileBegin(i, p)
    \/ \E i \in RequestIds : DeleteFileStat(i)
    \/ \E i \in RequestIds : DeleteFileUnlink(i)
    \/ \E i \in RequestIds, p \in ToolPaths, f \in BOOLEAN : DeleteDirectoryBegin(i, p, f)
    \/ \E i \in RequestIds : DeleteDirectoryStat(i)
    \/ \E i \in RequestIds : DeleteDirectoryRemove(i)
    \/ \E i \in RequestIds, m \in MovePairs : MovePathBegin(i, m[1], m[2])
    \/ \E i \in RequestIds : MovePathAccessSource(i)
    \/ \E i \in RequestIds : MovePathAccessDestDir(i)
    \/ \E i \in RequestIds : MovePathAccessDest(i)
    \/ \E i \in RequestIds : MovePathRename(i)

SpecTools == InitTools /\ [][NextTools]_vars

----------------------------------------------------------------------------
(* Properties of the interleaved tool requests *)

InFlight(i) == requests[i].pc \notin {"idle", "done"}

\* Every path a request in flight holds is what resolvePath makes of the
\* requested path and the one default the request read.
ResolvedAgainstOneDefault ==
    \A i \in RequestIds :
        InFlight(i) =>
            /\ resolvePath(requests[i].seen, fsBaseDirectory, requests[i].path, cwd) = OkR(requests[i].abs)
            /\ requests[i].tool = "move_path" =>
                  resolvePath(requests[i].seen, fsBaseDirectory, requests[i].dest, cwd) = OkR(requests[i].absDest)

\* The default a request reads is the current one, left by the latest
\* set_filesystem_default or clear; the paths it resolved stay as they are
\* until it ends.
ResolutionStep ==
    \A i \in RequestIds :
        /\ (requests[i].pc = "idle" /\ requests'[i].pc \notin {"idle", "done"} /\ ~isAbsolute(requests'[i].path))
              => requests'[i].seen = defaultFilesystemPath /\ defaultFilesystemPath' = defaultFilesystemPath
        /\ (InFlight(i) /\ requests'[i].pc # "done")
              => /\ requests'[i].abs = requests[i].abs
                 /\ requests'[i].absDest = requests[i].absDest
                 /\ requests'[i].seen = requests[i].seen

DestinationFound(i) ==
    at(i, "move_path", "accessDest") /\ statCode(disk, requests[i].absDest) = "OK"

\* A request that finds its destination fails with VALIDATION_ERROR and
\* leaves the disk as it is.
RefusedWhenDestinationExists ==
    \A i \in RequestIds :
        (DestinationFound(i) /\ requests'[i] # requests[i])
            => requests'[i].code = "VALIDATION_ERROR" /\ disk' = disk

\* C27: move_path never overwrites an existing destination: under any
\* interleaving, fs.rename is called only when nothing exists at the
\* destination path, and a request whose destination exists fails with
\* VALIDATION_ERROR, leaving source and destination untouched.
C27_NeverOverwrites ==
    /\ [](fsCall.op = "rename" => ~fsCall.destExisted)
    /\ [][RefusedWhenDestinationExists]_vars

\* The part of C27 that holds: a request that finds its destination at its
\* fs.access check ends in an error, without any fs call.
C27_RefusedWithoutFsCall ==
    [][\A i \in RequestIds :
          (DestinationFound(i) /\ requests'[i] # requests[i])
              => requests'[i].pc = "done" /\ requests'[i].code # "OK" /\ disk' = disk /\ fsCall' = NoFsCall]_vars

\* The targets of the fs call just issued.
TargetsOf(c) == IF c.op = "rename" THEN {c.target, c.other} ELSE {c.target}

\* A request whose resolvePath call failed ends at once, without fs call.
NoFsCallWhenResolveFails ==
    \A i \in RequestIds :
        (requests[i].pc = "idle" /\ requests'[i].pc = "done")
            => fsCall' = NoFsCall /\ disk' = disk

\* C28: with a sandbox base active, every mutating fs call a tool handler
\* issues (mkdir, writeFile, unlink, rmdir, rm, rename) targets the base
\* itself or a path under it, for every request and every session default,
\* and a handler whose resolvePath call fails issues no fs call at all.
C28_MutationsWithinBase ==
    /\ []((truthy(fsBaseDirectory) /\ fsCall.op # "none")
             => \A t \in TargetsOf(fsCall) : UnderDir(placeOf(t), fsBaseDirectory))
    /\ [][NoFsCallWhenResolveFails]_vars

\* The part of C28 that holds: every mutating fs call targets the base or a
\* path under it, except the fs.mkdir of write_file, whose target is the
\* parent directory of the resolved path (outside when that path is the
\* base itself); a failed resolvePath is followed by no fs call.
C28_MutationsWithinBaseOrParent ==
    /\ []((truthy(fsBaseDirectory) /\ fsCall.op # "none")
             => \A t \in TargetsOf(fsCall) :
                   \/ UnderDir(placeOf(t), fsBaseDirectory)
                   \/ fsCall.op = "mkdir" /\ placeOf(t) = dirname(fsBaseDirectory))
    /\ [][NoFsCallWhenResolveFails]_vars

----------------------------------------------------------------------------
(* Termination and cost of a listing *)

\* Every fs.readdir the call awaits completes, and the call goes on.
SpecListFair == SpecList /\ WF_vars(NextList)

ListingEnded == listOutput.pc \in {"done", "failed"}

\* C24: for every finite directory tree and every positive maxEntries, a
\* list_files call, recursive or not, eventually returns a result or an
\* error provided each directory read completes, and it issues at most
\* maxEntries directory reads in all.
C24_EndsWithinReadBudget == <>ListingEnded /\ [](readdirs <= listInput.maxEntries)

\* A recursive listing ended after as many directory reads as maxEntries
\* allows, in a tree with more directories than it read.
C24_Witness ==
    /\ listOutput.pc = "done" /\ listInput.includeNested
    /\ readdirs = listInput.maxEntries /\ readdirs = 2
    /\ listOutput.truncated /\ Len(listInput.root.entries) = 3
    /\ \A k \in 1..3 : listInput.root.entries[k].isDirectory

----------------------------------------------------------------------------
(* What a truncated listing keeps *)

\* The entries in depth-first read order, each as its path from the listed
\* directory: a directory is followed at once by its contents (recursive
\* mode, readable directory).
RECURSIVE readOrder(_, _, _)
readOrder(entries, prefix, includeNested) ==
    IF entries = <<>> THEN <<>>
    ELSE LET e == Head(entries)
             p == Append(prefix, e.name)
         IN  <<p>>
             \o (IF e.isDirectory /\ includeNested /\ e.readError = "none"
                 THEN readOrder(e.entries, p, includeNested) ELSE <<>>)
             \o readOrder(Tail(entries), prefix, includeNested)

\* The paths of the items of a returned tree.
RECURSIVE itemPaths(_, _)
itemPaths(items, prefix) ==
    UNION { {Append(prefix, items[k].name)}
                \cup itemPaths(items[k].children, Append(prefix, items[k].name)) : k \in 1..Len(items) }

FirstRead(n) ==
    LET order == readOrder(listInput.root.entries, <<>>, listInput.includeNested)
    IN  Range(SubSeq(order, 1, min(n, Len(order))))

\* C30: when a listing is truncated, the entries it keeps are exactly the
\* first maxEntries entries in depth-first directory-read order; sorting
\* comes afterwards, so no entry read later appears in the result and the
\* kept set does not depend on the sort order.
C30_TruncationKeepsFirstRead ==
    (listOutput.pc = "done" /\ listOutput.truncated)
        => itemPaths(listOutput.items, <<>>) = FirstRead(listInput.maxEntries)

\* A truncated recursive listing under the Danish collation keeps b and its
\* file a, read first, and drops the directory a, which sorts before them.
C30_Witness ==
    /\ listOutput.pc = "done" /\ listOutput.truncated /\ listInput.includeNested
    /\ listInput.maxEntries = 2 /\ listInput.locale = "da-DK"
    /\ Len(listInput.root.entries) = 2
    /\ listInput.root.entries[1] = Dir("b", "none", <<File("a")>>)
    /\ listInput.root.entries[2].name = "a" /\ listInput.root.entries[2].isDirectory
    /\ itemPaths(listOutput.items, <<>>) = {<<"b">>, <<"b", "a">>}

----------------------------------------------------------------------------
(* Two list_files calls on the same directory tree, interleaved *)

\* readDirectoryRecursive run to its end without interruption: the items it
\* returns (or the error it throws) and the state object it leaves.
RECURSIVE readDirectoryAlone(_, _, _)
RECURSIVE loopAlone(_, _, _, _)
readDirectoryAlone(node, state, includeNested) ==
    IF state.truncated \/ limitReached(state)
    THEN [items |-> <<>>, state |-> [state EXCEPT !.truncated = TRUE], error |-> "none"]
    ELSE IF node.readError # "none"
    THEN [items |-> <<>>, state |-> state, error |-> readErrorCode(node.readError)]
    ELSE loopAlone(readdir(node), <<>>, state, includeNested)

loopAlone(entries, items, state, includeNested) ==
    IF entries = <<>> THEN [items |-> sortItems(items), state |-> state, error |-> "none"]
    ELSE IF limitReached(state)
    THEN [items |-> sortItems(items), state |-> [state EXCEPT !.truncated = TRUE], error |-> "none"]
    ELSE LET entry == Head(entries)
             item == newItem(entry)
         IN  IF item.isDirectory /\ includeNested
             THEN LET r == readDirectoryAlone([readError |-> entry.readError, entries |-> entry.entries],
                                              countEntry(state), includeNested)
                      filled == IF r.error # "none" THEN [item EXCEPT !.error = r.error]
                                ELSE [item EXCEPT !.hasChildren = TRUE, !.children = r.items]
                  IN  IF r.state.truncated
                      THEN [items |-> sortItems(Append(items, filled)), state |-> r.state, error |-> "none"]
                      ELSE loopAlone(Tail(entries), Append(items, filled), r.state, includeNested)
             ELSE loopAlone(Tail(entries), Append(items, item), countEntry(state), includeNested)

\* What listFilesLogic returns or throws for the input when nothing else runs.
listFilesAlone(input) ==
    LET r == readDirectoryAlone(input.root, newBudget(input.maxEntries), input.includeNested)
    IN  IF r.error # "none"
        THEN [pc |-> "failed", code |-> r.error, items |-> <<>>, itemCount |-> 0, truncated |-> FALSE]
        ELSE [pc |-> "done", code |-> "OK", items |-> r.items,
              itemCount |-> r.state.count, truncated |-> r.state.truncated]

\* The directory both calls list: entries b and a, in that order.
SharedRoots == {[readError |-> "none", entries |-> es] : es \in ListingsOf(<<"b", "a">>)}

\* A call that has not started, waiting for its turn.
waitingCall(input) ==
    [pc |-> "waiting", listInput |-> input,
     budget |-> [count |-> 0, limit |-> 0, truncated |-> FALSE], frames |-> <<>>,
     listOutput |-> [pc |-> "start", code |-> "OK", items |-> <<>>, itemCount |-> 0, truncated |-> FALSE],
     readdirs |-> 0]

InitTwoLists ==
    /\ cwd \in WorkingDirs
    /\ configured = Null
    /\ fsBaseDirectory = Null
    /\ defaultFilesystemPath = Null
    /\ call = Idle
    /\ lastSet = Null
    /\ san = SanIdle
    /\ listInput \in [root : SharedRoots, includeNested : BOOLEAN, maxEntries : 1..MaxLimit, locale : {"en-US"}]
    /\ budget = [count |-> 0, limit |-> 0, truncated |-> FALSE]
    /\ frames = <<>>
    /\ listOutput = [pc |-> "start", code |-> "OK", items |-> <<>>, itemCount |-> 0, truncated |-> FALSE]
    /\ readdirs = 0
    /\ suspended \in {waitingCall([listInput EXCEPT !.includeNested = n, !.maxEntries = m]) :
                         n \in BOOLEAN, m \in 1..MaxLimit}
    /\ NoTree
    /\ NoTools
    /\ NoRate

\* The running call is at an await (fs.readdir), has not started, or has ended.
AtAwait == listOutput.pc \in {"start", "done", "failed"} \/ (frames # <<>> /\ top.phase = "enter")

\* The other call runs next, with one state object shared by both calls.
SwitchSharingState ==
    /\ suspended # NoCall /\ AtAwait
    /\ suspended.listOutput.pc \notin {"done", "failed"}
    /\ listInput' = suspended.listInput
    /\ frames' = suspended.frames
    /\ listOutput' = suspended.listOutput
    /\ readdirs' = suspended.readdirs
    /\ budget' = budget
    /\ suspended' = [pc |-> "waiting", listInput |-> listInput, budget |-> budget, frames |-> frames,
                     listOutput |-> listOutput, readdirs |-> readdirs]
    /\ UNCHANGED pathVars /\ UNCHANGED treeVars /\ UNCHANGED toolVars /\ UNCHANGED rateVars

\* The event loop resumes the other call: each call has its own input, its
\* own state object (a local constant of listFilesLogic), its own
\* activations and its own result.
Switch ==
    /\ suspended # NoCall /\ AtAwait
    /\ suspended.listOutput.pc \notin {"done", "failed"}
    /\ listInput' = suspended.listInput
    /\ budget' = suspended.budget
    /\ frames' = suspended.frames
    /\ listOutput' = suspended.listOutput
    /\ readdirs' = suspended.readdirs
    /\ suspended' = [pc |-> "waiting", listInput |-> listInput, budget |-> budget, frames |-> frames,
                     listOutput |-> listOutput, readdirs |-> readdirs]
    /\ UNCHANGED pathVars /\ UNCHANGED treeVars /\ UNCHANGED toolVars /\ UNCHANGED rateVars

NextTwoLists == NextList \/ Switch

SpecTwoLists == InitTwoLists /\ [][NextTwoLists]_vars

\* C23: two list_files calls that run concurrently and interleave at their
\* directory reads each use their own budget: the count, the truncated flag
\* and the tree each call returns (or the error it throws) equal what the
\* call returns when run alone on the same unchanged directory tree.
C23_ConcurrentListingsIndependent ==
    /\ ListingEnded => listOutput = listFilesAlone(listInput)
    /\ (suspended # NoCall /\ suspended.listOutput.pc \in {"done", "failed"})
          => suspended.listOutput = listFilesAlone(suspended.listInput)

\* Both calls have ended after interleaving: one, with maxEntries 1, was
\* truncated while the other, recursive with maxEntries 3, had counted two
\* entries already and went on to list all three.
C23_Witness ==
    /\ suspended # NoCall /\ suspended.listOutput.pc = "done" /\ listOutput.pc = "done"
    /\ suspended.listInput.maxEntries = 1 /\ suspended.listOutput.truncated
    /\ suspended.readdirs = 1 /\ readdirs = 2
    /\ listInput.maxEntries = 3 /\ listInput.includeNested
    /\ listOutput.itemCount = 3 /\ ~listOutput.truncated

----------------------------------------------------------------------------
(* The rate limiter: RateLimiter.check with its in-memory store, the clock  *)
(* and the periodic cleanup of expired entries.                             *)

RateKeys == {"k1", "k2"}
MaxRequestsValues == {0, 1, 2}
WindowValues == {2}
MaxClock == 5

\* this.limits.get(limitKey) when the key has no entry.
NoEntry == [count |-> 0, resetTime |-> -1]

\* No check made yet; per key, the calls accepted since its window opened.
NoCheck == [key |-> "", outcome |-> "none", found |-> NoEntry, accepted |-> [k \in RateKeys |-> 0]]

InitRate ==
    /\ cwd \in WorkingDirs
    /\ configured = Null
    /\ fsBaseDirectory = Null
    /\ defaultFilesystemPath = Null
    /\ call = Idle
    /\ lastSet = Null
    /\ san = SanIdle
    /\ NoListing
    /\ NoTree
    /\ NoTools
    /\ rateConfig \in [maxRequests : MaxRequestsValues, windowMs : WindowValues]
    /\ limits = [k \in RateKeys |-> NoEntry]
    /\ clock = 0
    /\ checked = NoCheck

rateFrame == UNCHANGED pathVars /\ UNCHANGED listVars /\ UNCHANGED treeVars /\ UNCHANGED toolVars

\* !entry || now >= entry.resetTime
windowOver(entry, now) == entry = NoEntry \/ now >= entry.resetTime

\* The limit test against maxRequests + 1.
limitHitLate(entry, config) == entry.count > config.maxRequests

\* entry.count >= this.config.maxRequests
limitHit(entry, config) == entry.count >= config.maxRequests

\* rateLimiter.check(key): opens a window, throws RATE_LIMITED, or counts.
Check(key) ==
    LET now == clock
        entry == limits[key]
    IN  /\ IF windowOver(entry, now)
           THEN /\ limits' = [limits EXCEPT ![key] = [count |-> 1, resetTime |-> now + rateConfig.windowMs]]
                /\ checked' = [key |-> key, outcome |-> "accepted", found |-> entry,
                               accepted |-> [checked.accepted EXCEPT ![key] = 1]]
           ELSE IF limitHit(entry, rateConfig)
           THEN /\ limits' = limits
                /\ checked' = [key |-> key, outcome |-> "RATE_LIMITED", found |-> entry,
                               accepted |-> checked.accepted]
           ELSE /\ limits' = [limits EXCEPT ![key].count = entry.count + 1]
                /\ checked' = [key |-> key, outcome |-> "accepted", found |-> entry,
                               accepted |-> [checked.accepted EXCEPT ![key] = @ + 1]]
        /\ UNCHANGED <<rateConfig, clock>> /\ rateFrame

\* Date.now() moves on.
Tick ==
    /\ clock < MaxClock
    /\ clock' = clock + 1
    /\ UNCHANGED <<rateConfig, limits, checked>> /\ rateFrame

\* cleanupExpiredEntries, run by the interval timer.
CleanupExpiredEntries ==
    /\ \E k \in RateKeys : limits[k] # NoEntry /\ clock >= limits[k].resetTime
    /\ limits' = [k \in RateKeys |-> IF limits[k] # NoEntry /\ clock >= limits[k].resetTime THEN NoEntry ELSE limits[k]]
    /\ UNCHANGED <<rateConfig, clock, checked>> /\ rateFrame

NextRate == (\E k \in RateKeys : Check(k)) \/ Tick \/ CleanupExpiredEntries

SpecRate == InitRate /\ [][NextRate]_vars

\* What a check does in a window that is still open: once maxRequests calls
\* were accepted it throws and leaves the entry alone; and a check at or
\* after resetTime is accepted and opens a new window with count 1.
CheckStep ==
    \A k \in RateKeys :
        (checked' # checked /\ checked'.key = k) =>
            /\ (limits[k] # NoEntry /\ clock < limits[k].resetTime /\ checked.accepted[k] >= rateConfig.maxRequests)
                  => checked'.outcome = "RATE_LIMITED" /\ limits' = limits
            /\ (limits[k] = NoEntry \/ clock >= limits[k].resetTime)
                  => /\ checked'.outcome = "accepted"
                     /\ limits'[k] = [count |-> 1, resetTime |-> clock + rateConfig.windowMs]

\* C26: for each key, within one time window at most maxRequests calls of
\* RateLimiter.check are accepted, for every configured maxRequests; every
\* further check before resetTime throws RATE_LIMITED and leaves the key's
\* count and resetTime unchanged, and the first check at or after resetTime
\* is accepted and opens a new window with count 1.
C26_AtMostMaxRequestsPerWindow ==
    /\ [](\A k \in RateKeys : checked.accepted[k] <= rateConfig.maxRequests)
    /\ [][CheckStep]_vars

\* The part of C26 that holds: the same, for every maxRequests of at least 1.
C26_AtMostMaxRequestsWhenPositive ==
    /\ [](rateConfig.maxRequests >= 1 => \A k \in RateKeys : checked.accepted[k] <= rateConfig.maxRequests)
    /\ [][rateConfig.maxRequests >= 1 => CheckStep]_vars

----------------------------------------------------------------------------
(* The sandbox check on inside paths *)

\* The request is an absolute path free of null bytes whose normalized form
\* is the base directory or lies under it.
InsideRequest ==
    /\ call.op = "resolvePath" /\ truthy(fsBaseDirectory)
    /\ isAbsolute(call.arg) /\ ~includesNul(call.arg)
    /\ UnderDir(normalize(call.arg), fsBaseDirectory)

\* C29: for every base value that initialization accepts and stores,
\* resolvePath does not fail with FORBIDDEN for an absolute input, free of
\* null bytes, whose normalized form is the base directory itself or lies
\* under it, and it returns that normalized form.
C29_InsideNeverRejected ==
    InsideRequest => call.result = OkR(normalize(call.arg))

\* The part of C29 that holds: the same for a base other than the root
\* directory and an input without backslashes.
C29_InsideAcceptedBelowRoot ==
    (InsideRequest /\ fsBaseDirectory # <<Sep>> /\ Backslash \notin Range(call.arg))
        => call.result = OkR(normalize(call.arg))

============================================================================
